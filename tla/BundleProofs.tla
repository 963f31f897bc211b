---------------------------- MODULE BundleProofs ----------------------------
(***************************************************************************)
(* The check of a bundle is enough for the machine, for every program.     *)
(*                                                                         *)
(* The check looks at operands by their kind; the machine takes the two    *)
(* sides of a merge and the two locals of a scan as numbers, whatever      *)
(* their kind.  So the check covers them only because no form of a bundle  *)
(* gives these slots a kind it would not look at: the lowering makes them  *)
(* an Index, the binary reader a Local.  That is the invariant.            *)
(*                                                                         *)
(* Then what a form keeps of the program: the writer, the reader and the   *)
(* lowering each have a table of the slots of every statement type, and    *)
(* the tables agree.  A statement so comes back with the same meaning, a   *)
(* name still finds its plan, and what was accepted once is not refused    *)
(* later, in whichever form it is.                                         *)
(***************************************************************************)
EXTENDS BundleForms, FiniteSetTheorems, TLAPS

RawChecked(st) ==
  st.type \in RawLocals => /\ st.op0.kind \in {"Local", "Index"}
                           /\ st.op1.kind \in {"Local", "Index"}

PoolShape(pool) ==
  /\ Len(pool) \in Nat
  /\ \A b \in 1..Len(pool) : Len(pool[b]) \in Nat

IInv ==
  /\ PoolShape(bundle.pool)
  /\ form = "compiled" =>
       \A b \in 1..Len(bundle.pool) : \A i \in 1..Len(bundle.pool[b]) :
         RawChecked(bundle.pool[b][i])

(***************************************************************************)
(* What the lowering and the binary reader make of any statement.          *)
(***************************************************************************)
LEMMA LoweredRaw == \A s : RawChecked(LowerStatement(s))
<1> SUFFICES ASSUME NEW s, LowerStatement(s).type \in RawLocals
             PROVE  /\ LowerStatement(s).op0.kind \in {"Local", "Index"}
                    /\ LowerStatement(s).op1.kind \in {"Local", "Index"}
  BY DEF RawChecked
<1>1. s.type \in {"ObjectMerge", "Scan"} BY DEF LowerStatement, RawLocals
<1>2. Lowering(s.type) = LoweringFromMake(s.type)
  BY <1>1 DEF Lowering, FirstHalf
<1>3. Lowering(s.type).op0.how = "Index" /\ Lowering(s.type).op1.how = "Index"
  <2>1. CASE s.type = "ObjectMerge"
    <3>1. Lowering(s.type) = Row("Target", Idx("Lhs"), Idx("Rhs"))
      BY <1>2, <2>1 DEF LoweringFromMake
    <3> QED BY <3>1 DEF Row, Idx
  <2>2. CASE s.type = "Scan"
    <3>1. Lowering(s.type) = Row("Src", Idx("Key"), Idx("Val"))
      BY <1>2, <2>2 DEF LoweringFromMake
    <3> QED BY <3>1 DEF Row, Idx
  <2> QED BY <1>1, <2>1, <2>2
<1>4. /\ LowerOperand(s, Lowering(s.type).op0).kind = "Index"
      /\ LowerOperand(s, Lowering(s.type).op1).kind = "Index"
  BY <1>3 DEF LowerOperand, Operand
<1> QED BY <1>4 DEF LowerStatement

LEMMA ReadRaw == \A image : RawChecked(ReadStatement(image))
<1> SUFFICES ASSUME NEW image, ReadStatement(image).type \in RawLocals
             PROVE  /\ ReadStatement(image).op0.kind = "Local"
                    /\ ReadStatement(image).op1.kind = "Local"
  BY DEF RawChecked
<1>1. image.type \in {"ObjectMerge", "Scan"} BY DEF ReadStatement, RawLocals
<1> DEFINE row == ReadOrder(image.type)
<1>2. row = ReadOrderFromMake(image.type)
  BY <1>1 DEF ReadOrder, FirstHalf
<1>3. \A i \in 1..Len(row) : row[i].slot \in {"op0", "op1"} => row[i].enc = "size"
  <2>1. CASE image.type = "ObjectMerge"
    BY <1>2, <2>1 DEF ReadOrderFromMake, ReadMerge, Size, E
  <2>2. CASE image.type = "Scan"
    BY <1>2, <2>2 DEF ReadOrderFromMake, Size, E
  <2> QED BY <1>1, <2>1, <2>2
<1>4. ASSUME NEW slot \in {"op0", "op1"}
      PROVE  \E i \in 1..Len(row) : row[i].slot = slot
  <2>1. CASE image.type = "ObjectMerge"
    <3>1. row = <<Size("op0"), Size("op1"), Size("target")>>
      BY <1>2, <2>1 DEF ReadOrderFromMake, ReadMerge
    <3>2. Len(row) = 3 /\ row[1].slot = "op0" /\ row[2].slot = "op1"
      BY <3>1 DEF Size, E
    <3> QED BY <3>2
  <2>2. CASE image.type = "Scan"
    <3>1. row = <<Size("target"), Size("op0"), Size("op1"), E("block", "blocks")>>
      BY <1>2, <2>2 DEF ReadOrderFromMake
    <3>2. Len(row) = 4 /\ row[2].slot = "op0" /\ row[3].slot = "op1"
      BY <3>1 DEF Size, E
    <3> QED BY <3>2
  <2> QED BY <1>1, <2>1, <2>2
<1>5. ReadKind(image.type) = "Local"
  BY <1>1 DEF ReadKind
<1>6. ASSUME NEW slot \in {"op0", "op1"}
      PROVE  ReadSlot(image, slot, NoOperand).kind = "Local"
  <2> DEFINE at == {i \in 1..Len(row) : row[i].slot = slot}
  <2>1. at # {} BY <1>4
  <2> DEFINE j == CHOOSE k \in at : TRUE
  <2>2. j \in at BY <2>1
  <2>3. row[j].enc = "size" BY <2>2, <1>3
  <2>4. ReadSlot(image, slot, NoOperand) =
          Operand(ReadKind(image.type), image.items[j].val)
    BY <2>1, <2>3 DEF ReadSlot
  <2> QED BY <2>4, <1>5 DEF Operand
<1> QED BY <1>6 DEF ReadStatement

(***************************************************************************)
(* The pools the conversions make have the shape of the pools they take.   *)
(***************************************************************************)
LEMMA LoweredPool ==
  ASSUME NEW tree, PoolShape(tree.pool)
  PROVE  /\ PoolShape(FromNode(tree).pool)
         /\ \A b \in 1..Len(FromNode(tree).pool) :
              \A i \in 1..Len(FromNode(tree).pool[b]) :
                RawChecked(FromNode(tree).pool[b][i])
<1> DEFINE made == [b \in 1..Len(tree.pool) |->
                      [i \in 1..Len(tree.pool[b]) |-> LowerStatement(tree.pool[b][i])]]
<1>1. FromNode(tree).pool = made BY DEF FromNode
<1>2. Len(tree.pool) \in Nat /\ \A b \in 1..Len(tree.pool) : Len(tree.pool[b]) \in Nat
  BY DEF PoolShape
<1>3. Len(made) = Len(tree.pool) BY <1>2
<1>4. ASSUME NEW b \in 1..Len(tree.pool)
      PROVE  /\ Len(made[b]) = Len(tree.pool[b])
             /\ \A i \in 1..Len(tree.pool[b]) : made[b][i] = LowerStatement(tree.pool[b][i])
  <2>1. made[b] = [i \in 1..Len(tree.pool[b]) |-> LowerStatement(tree.pool[b][i])]
    OBVIOUS
  <2> HIDE DEF made
  <2> QED BY <2>1, <1>2
<1> HIDE DEF made
<1> QED BY <1>1, <1>2, <1>3, <1>4, LoweredRaw DEF PoolShape

LEMMA ReadPoolShape ==
  ASSUME NEW image, PoolShape(image.pool)
  PROVE  /\ PoolShape(ReadBundle(image).pool)
         /\ \A b \in 1..Len(ReadBundle(image).pool) :
              \A i \in 1..Len(ReadBundle(image).pool[b]) :
                RawChecked(ReadBundle(image).pool[b][i])
<1> DEFINE made == [b \in 1..Len(image.pool) |->
                      [i \in 1..Len(image.pool[b]) |-> ReadStatement(image.pool[b][i])]]
<1>1. ReadBundle(image).pool = made BY DEF ReadBundle, ReadPool
<1>2. Len(image.pool) \in Nat /\ \A b \in 1..Len(image.pool) : Len(image.pool[b]) \in Nat
  BY DEF PoolShape
<1>3. Len(made) = Len(image.pool) BY <1>2
<1>4. ASSUME NEW b \in 1..Len(image.pool)
      PROVE  /\ Len(made[b]) = Len(image.pool[b])
             /\ \A i \in 1..Len(image.pool[b]) : made[b][i] = ReadStatement(image.pool[b][i])
  <2>1. made[b] = [i \in 1..Len(image.pool[b]) |-> ReadStatement(image.pool[b][i])]
    OBVIOUS
  <2> HIDE DEF made
  <2> QED BY <2>1, <1>2
<1> HIDE DEF made
<1> QED BY <1>1, <1>2, <1>3, <1>4, ReadRaw DEF PoolShape

LEMMA WrittenPoolShape ==
  ASSUME NEW b, NEW payload, PoolShape(b.pool)
  PROVE  PoolShape(WriteBundle(b, payload).pool)
<1>1. WriteBundle(b, payload).pool =
        [k \in 1..Len(b.pool) |-> [i \in 1..Len(b.pool[k]) |-> WriteStatement(b.pool[k][i])]]
  BY DEF WriteBundle, WritePool
<1> QED BY <1>1 DEF PoolShape

LEMMA JsonPoolShape ==
  ASSUME NEW b, PoolShape(b.pool)
  PROVE  PoolShape(PolicyToJson(b).pool) /\ PoolShape(PolicyFromJson(b).pool)
<1>1. PolicyToJson(b).pool =
        [k \in 1..Len(b.pool) |-> [i \in 1..Len(b.pool[k]) |-> StatementToJson(b.pool[k][i])]]
  BY DEF PolicyToJson, PoolToJson
<1>2. PolicyFromJson(b).pool =
        [k \in 1..Len(b.pool) |-> [i \in 1..Len(b.pool[k]) |-> StatementFromJson(b.pool[k][i])]]
  BY DEF PolicyFromJson, PoolFromJson
<1> QED BY <1>1, <1>2 DEF PoolShape

-----------------------------------------------------------------------------
LEMMA InitInv == Init => IInv
BY ProgramsWellFormed DEF Init, IInv, PoolShape, TreeWellFormed

LEMMA StepInv == IInv /\ [Next]_vars => IInv'
<1> SUFFICES ASSUME IInv, [Next]_vars PROVE IInv' OBVIOUS
<1>1. CASE Lower
  BY <1>1, LoweredPool DEF Lower, IInv
<1>2. CASE SaveJson
  BY <1>2, JsonPoolShape DEF SaveJson, IInv
<1>3. CASE LoadJson
  BY <1>3, JsonPoolShape DEF LoadJson, IInv
<1>4. CASE SaveBinary
  BY <1>4, WrittenPoolShape DEF SaveBinary, IInv
<1>5. CASE LoadBinary
  BY <1>5, ReadPoolShape DEF LoadBinary, IInv
<1>6. CASE Bind
  BY <1>6 DEF Bind, IInv
<1>7. CASE UNCHANGED vars
  BY <1>7 DEF vars, IInv
<1> QED BY <1>1, <1>2, <1>3, <1>4, <1>5, <1>6, <1>7 DEF Next

LEMMA Invariance == Spec => []IInv
BY InitInv, StepInv, PTL DEF Spec

(***************************************************************************)
(* One accepted statement: each local and each string the machine takes    *)
(* from it is in range.                                                    *)
(***************************************************************************)
LEMMA AcceptedStatement ==
  ASSUME NEW st, NEW b, StatementOK(st, b), RawChecked(st)
  PROVE  StatementInRange(st, b)
<1>1. st.type \in TargetUsers => st.target < b.locals
  <2>1. "Nop" \notin StatementTypes BY DEF StatementTypes, LocalFields
  <2> QED BY <2>1 DEF StatementOK, TargetUsers, TargetUnread
<1>2. st.type \in RawLocals => st.op0.n < b.locals /\ st.op1.n < b.locals
  <2>1. OperandOK(st.op0, b) /\ OperandOK(st.op1, b) BY DEF StatementOK
  <2>2. ASSUME NEW op, OperandOK(op, b), op.kind \in {"Local", "Index"}
        PROVE  op.n < b.locals
    BY <2>2 DEF OperandOK
  <2> QED BY <2>1, <2>2 DEF RawChecked
<1>3. \A op \in Unpacked(st) : OperandOK(op, b)
  BY DEF Unpacked, StatementOK, CallOK
<1>4. \A op \in Unpacked(st) : /\ op.kind = "Local" => op.n < b.locals
                               /\ op.kind = "String" => op.n < b.strings
  BY <1>3 DEF OperandOK
<1>5. /\ st.type = "MakeNumberRef" => st.op0.n < b.strings
      /\ st.type = "With" => \A i \in 1..Len(st.ext.path) : st.ext.path[i] < b.strings
  BY DEF StatementOK
<1>6. \A n \in LocalsUsed(st) : n < b.locals
  BY <1>1, <1>2, <1>4 DEF LocalsUsed
<1>7. \A n \in StringsUsed(st) : n < b.strings
  BY <1>4, <1>5 DEF StringsUsed
<1> QED BY <1>6, <1>7 DEF StatementInRange

(***************************************************************************)
(* For every program, and whatever saves and loads it went through: if the *)
(* check accepts the bundle, the machine stays inside its tables.          *)
(***************************************************************************)
THEOREM AcceptedIsSafe == Spec => []AcceptedIsInRange
<1>1. IInv => AcceptedIsInRange
  BY AcceptedStatement DEF IInv, AcceptedIsInRange, Verify, InRange
<1> QED BY <1>1, Invariance, PTL

-----------------------------------------------------------------------------
(***************************************************************************)
(* What the tables of the binary format list, said once: the slots an      *)
(* image of a statement carries and the encoding of each.  The rows of the *)
(* writer and of the reader are this, statement by statement.              *)
(***************************************************************************)
Slots == {"target", "op0", "op1", "func", "path", "ops", "blocks"}

NumberOp0 == {"AssignInt", "MakeNumberInt", "MakeArray", "Break", "MakeNumberRef",
              "ObjectMerge", "Scan"}
BlockHolders == {"Block", "Not", "Scan", "With"}

Encoding(t, slot) ==
  CASE slot = "target" /\ t \in TargetUsers -> "size"
    [] slot = "op0" /\ t \in UnpackOp0 -> "operand"
    [] slot = "op0" /\ t \in {"AssignInt", "MakeNumberInt"} -> "int64"
    [] slot = "op0" /\ t = "MakeArray" -> "int32"
    [] slot = "op0" /\ t \in {"Break", "MakeNumberRef", "ObjectMerge", "Scan"} -> "size"
    [] slot = "op1" /\ t \in UnpackOp1 -> "operand"
    [] slot = "op1" /\ t \in RawLocals -> "size"
    [] slot = "func" /\ t = "Call" -> "string"
    [] slot = "path" /\ t = "CallDynamic" -> "operands8"
    [] slot = "path" /\ t = "With" -> "ipath8"
    [] slot = "ops" /\ t \in {"Call", "CallDynamic"} -> "operands8"
    [] slot = "blocks" /\ t = "Block" -> "blocks"
    [] slot = "blocks" /\ t \in {"Not", "Scan", "With"} -> "block"
    [] OTHER -> "none"

RowFits(row, t) ==
  /\ Len(row) \in Nat
  /\ \A i \in 1..Len(row) : /\ row[i] = E(Encoding(t, row[i].slot), row[i].slot)
                            /\ row[i].slot \in Slots /\ row[i].enc # "none"
  /\ \A slot \in Slots : Encoding(t, slot) # "none" => \E i \in 1..Len(row) : row[i].slot = slot

LEMMA TypeCases ==
    \A t : t \in StatementTypes <=>
      t \in {"ArrayAppend", "AssignInt", "AssignVarOnce", "AssignVar", "Block", "Break",
             "CallDynamic", "Call", "Dot", "Equal", "IsArray", "IsDefined", "IsObject",
             "IsSet", "IsUndefined", "Len", "MakeArray", "MakeNull", "MakeNumberInt",
             "MakeNumberRef", "MakeObject", "MakeSet", "NotEqual", "Not",
             "ObjectInsertOnce", "ObjectInsert", "ObjectMerge", "ResetLocal",
             "ResultSetAdd", "ReturnLocal", "Scan", "SetAdd", "With"}
BY DEF StatementTypes, LocalFields

(* Rows of one to four items.                                              *)
LEMMA OneItem ==
    ASSUME NEW t, NEW a \in Slots, Encoding(t, a) # "none",
           \A slot \in Slots : slot = a \/ Encoding(t, slot) = "none"
    PROVE  RowFits(<<E(Encoding(t, a), a)>>, t)
<1> DEFINE row == <<E(Encoding(t, a), a)>>
<1>1. Len(row) = 1 /\ row[1] = E(Encoding(t, a), a)
  OBVIOUS
<1>2. \A i \in 1..Len(row) : i = 1
  BY <1>1
<1>3. 1 \in 1..Len(row)
  BY <1>1
<1> HIDE DEF row
<1> QED BY <1>1, <1>2, <1>3 DEF RowFits, E, row

LEMMA TwoItems ==
    ASSUME NEW t, NEW a \in Slots, NEW b \in Slots,
           Encoding(t, a) # "none", Encoding(t, b) # "none",
           \A slot \in Slots : slot \in {a, b} \/ Encoding(t, slot) = "none"
    PROVE  RowFits(<<E(Encoding(t, a), a), E(Encoding(t, b), b)>>, t)
<1> DEFINE row == <<E(Encoding(t, a), a), E(Encoding(t, b), b)>>
<1>1. Len(row) = 2 /\ row[1] = E(Encoding(t, a), a) /\ row[2] = E(Encoding(t, b), b)
  OBVIOUS
<1>2. \A i \in 1..Len(row) : i = 1 \/ i = 2
  BY <1>1
<1>3. 1 \in 1..Len(row) /\ 2 \in 1..Len(row)
  BY <1>1
<1> HIDE DEF row
<1> QED BY <1>1, <1>2, <1>3 DEF RowFits, E, row

LEMMA ThreeItems ==
    ASSUME NEW t, NEW a \in Slots, NEW b \in Slots, NEW c \in Slots,
           Encoding(t, a) # "none", Encoding(t, b) # "none", Encoding(t, c) # "none",
           \A slot \in Slots : slot \in {a, b, c} \/ Encoding(t, slot) = "none"
    PROVE  RowFits(<<E(Encoding(t, a), a), E(Encoding(t, b), b), E(Encoding(t, c), c)>>, t)
<1> DEFINE row == <<E(Encoding(t, a), a), E(Encoding(t, b), b), E(Encoding(t, c), c)>>
<1>1. /\ Len(row) = 3 /\ row[1] = E(Encoding(t, a), a) /\ row[2] = E(Encoding(t, b), b)
      /\ row[3] = E(Encoding(t, c), c)
  OBVIOUS
<1>2. \A i \in 1..Len(row) : i = 1 \/ i = 2 \/ i = 3
  BY <1>1
<1>3. 1 \in 1..Len(row) /\ 2 \in 1..Len(row) /\ 3 \in 1..Len(row)
  BY <1>1
<1> HIDE DEF row
<1> QED BY <1>1, <1>2, <1>3 DEF RowFits, E, row

LEMMA FourItems ==
    ASSUME NEW t, NEW a \in Slots, NEW b \in Slots, NEW c \in Slots, NEW d \in Slots,
           Encoding(t, a) # "none", Encoding(t, b) # "none", Encoding(t, c) # "none",
           Encoding(t, d) # "none",
           \A slot \in Slots : slot \in {a, b, c, d} \/ Encoding(t, slot) = "none"
    PROVE  RowFits(<<E(Encoding(t, a), a), E(Encoding(t, b), b), E(Encoding(t, c), c),
                     E(Encoding(t, d), d)>>, t)
<1> DEFINE row == <<E(Encoding(t, a), a), E(Encoding(t, b), b), E(Encoding(t, c), c),
                    E(Encoding(t, d), d)>>
<1>1. /\ Len(row) = 4 /\ row[1] = E(Encoding(t, a), a) /\ row[2] = E(Encoding(t, b), b)
      /\ row[3] = E(Encoding(t, c), c) /\ row[4] = E(Encoding(t, d), d)
  OBVIOUS
<1>2. \A i \in 1..Len(row) : i = 1 \/ i = 2 \/ i = 3 \/ i = 4
  BY <1>1
<1>3. 1 \in 1..Len(row) /\ 2 \in 1..Len(row) /\ 3 \in 1..Len(row) /\ 4 \in 1..Len(row)
  BY <1>1
<1> HIDE DEF row
<1> QED BY <1>1, <1>2, <1>3 DEF RowFits, E, row

(***************************************************************************)
(* write_statement and read_statement go through the slots of a statement  *)
(* in one order, and it is that of the table above.                        *)
(***************************************************************************)
LEMMA RowsAgree ==
    ASSUME NEW t \in StatementTypes
    PROVE  WriteOrder(t) = ReadOrder(t) /\ RowFits(WriteOrder(t), t)
<1> DEFINE row == WriteOrder(t)
           e(slot) == E(Encoding(t, slot), slot)
<1>0. \A slot \in Slots : slot \in {"target", "op0", "op1", "func", "path", "ops", "blocks"}
  BY DEF Slots
<1>1. CASE t = "ArrayAppend"
  <2>1. row = <<e("target"), e("op0")>> /\ ReadOrder(t) = row
    BY <1>1 DEF WriteOrder, ReadOrder, FirstHalf, WriteOrderToLen, ReadOrderToLen, E, Size, Opd, Ops,
                Encoding, TargetUsers, StatementTypes, LocalFields, UnpackOp0, UnpackOp1, RawLocals
  <2>2. Encoding(t, "target") # "none" /\ Encoding(t, "op0") # "none"
    BY <1>1 DEF Encoding, TargetUsers, StatementTypes, LocalFields, UnpackOp0, UnpackOp1, RawLocals
  <2>3. \A slot \in Slots : slot \in {"target", "op0"} \/ Encoding(t, slot) = "none"
    BY <1>0, <1>1 DEF Encoding, TargetUsers, StatementTypes, LocalFields, UnpackOp0, UnpackOp1, RawLocals
  <2> QED BY <2>1, <2>2, <2>3, TwoItems DEF Slots
<1>2. CASE t = "AssignInt"
  <2>1. row = <<e("op0"), e("target")>> /\ ReadOrder(t) = row
    BY <1>2 DEF WriteOrder, ReadOrder, FirstHalf, WriteOrderToLen, ReadOrderToLen, E, Size, Opd, Ops,
                Encoding, TargetUsers, StatementTypes, LocalFields, UnpackOp0, UnpackOp1, RawLocals
  <2>2. Encoding(t, "op0") # "none" /\ Encoding(t, "target") # "none"
    BY <1>2 DEF Encoding, TargetUsers, StatementTypes, LocalFields, UnpackOp0, UnpackOp1, RawLocals
  <2>3. \A slot \in Slots : slot \in {"op0", "target"} \/ Encoding(t, slot) = "none"
    BY <1>0, <1>2 DEF Encoding, TargetUsers, StatementTypes, LocalFields, UnpackOp0, UnpackOp1, RawLocals
  <2> QED BY <2>1, <2>2, <2>3, TwoItems DEF Slots
<1>3. CASE t \in {"AssignVarOnce", "AssignVar", "Len"}
  <2>1. row = <<e("op0"), e("target")>> /\ ReadOrder(t) = row
    BY <1>3 DEF WriteOrder, ReadOrder, FirstHalf, WriteOrderToLen, ReadOrderToLen, E, Size, Opd, Ops,
                Encoding, TargetUsers, StatementTypes, LocalFields, UnpackOp0, UnpackOp1, RawLocals
  <2>2. Encoding(t, "op0") # "none" /\ Encoding(t, "target") # "none"
    BY <1>3 DEF Encoding, TargetUsers, StatementTypes, LocalFields, UnpackOp0, UnpackOp1, RawLocals
  <2>3. \A slot \in Slots : slot \in {"op0", "target"} \/ Encoding(t, slot) = "none"
    BY <1>0, <1>3 DEF Encoding, TargetUsers, StatementTypes, LocalFields, UnpackOp0, UnpackOp1, RawLocals
  <2> QED BY <2>1, <2>2, <2>3, TwoItems DEF Slots
<1>4. CASE t = "Block"
  <2>1. row = <<e("blocks")>> /\ ReadOrder(t) = row
    BY <1>4 DEF WriteOrder, ReadOrder, FirstHalf, WriteOrderToLen, ReadOrderToLen, E, Size, Opd, Ops,
                Encoding, TargetUsers, StatementTypes, LocalFields, UnpackOp0, UnpackOp1, RawLocals
  <2>2. Encoding(t, "blocks") # "none"
    BY <1>4 DEF Encoding, TargetUsers, StatementTypes, LocalFields, UnpackOp0, UnpackOp1, RawLocals
  <2>3. \A slot \in Slots : slot \in {"blocks"} \/ Encoding(t, slot) = "none"
    BY <1>0, <1>4 DEF Encoding, TargetUsers, StatementTypes, LocalFields, UnpackOp0, UnpackOp1, RawLocals
  <2> QED BY <2>1, <2>2, <2>3, OneItem DEF Slots
<1>5. CASE t = "Break"
  <2>1. row = <<e("op0")>> /\ ReadOrder(t) = row
    BY <1>5 DEF WriteOrder, ReadOrder, FirstHalf, WriteOrderToLen, ReadOrderToLen, E, Size, Opd, Ops,
                Encoding, TargetUsers, StatementTypes, LocalFields, UnpackOp0, UnpackOp1, RawLocals
  <2>2. Encoding(t, "op0") # "none"
    BY <1>5 DEF Encoding, TargetUsers, StatementTypes, LocalFields, UnpackOp0, UnpackOp1, RawLocals
  <2>3. \A slot \in Slots : slot \in {"op0"} \/ Encoding(t, slot) = "none"
    BY <1>0, <1>5 DEF Encoding, TargetUsers, StatementTypes, LocalFields, UnpackOp0, UnpackOp1, RawLocals
  <2> QED BY <2>1, <2>2, <2>3, OneItem DEF Slots
<1>6. CASE t = "Call"
  <2>1. row = <<e("func"), e("ops"), e("target")>> /\ ReadOrder(t) = row
    BY <1>6 DEF WriteOrder, ReadOrder, FirstHalf, WriteOrderToLen, ReadOrderToLen, E, Size, Opd, Ops,
                Encoding, TargetUsers, StatementTypes, LocalFields, UnpackOp0, UnpackOp1, RawLocals
  <2>2. Encoding(t, "func") # "none" /\ Encoding(t, "ops") # "none" /\ Encoding(t, "target") # "none"
    BY <1>6 DEF Encoding, TargetUsers, StatementTypes, LocalFields, UnpackOp0, UnpackOp1, RawLocals
  <2>3. \A slot \in Slots : slot \in {"func", "ops", "target"} \/ Encoding(t, slot) = "none"
    BY <1>0, <1>6 DEF Encoding, TargetUsers, StatementTypes, LocalFields, UnpackOp0, UnpackOp1, RawLocals
  <2> QED BY <2>1, <2>2, <2>3, ThreeItems DEF Slots
<1>7. CASE t = "CallDynamic"
  <2>1. row = <<e("path"), e("ops"), e("target")>> /\ ReadOrder(t) = row
    BY <1>7 DEF WriteOrder, ReadOrder, FirstHalf, WriteOrderToLen, ReadOrderToLen, E, Size, Opd, Ops,
                Encoding, TargetUsers, StatementTypes, LocalFields, UnpackOp0, UnpackOp1, RawLocals
  <2>2. Encoding(t, "path") # "none" /\ Encoding(t, "ops") # "none" /\ Encoding(t, "target") # "none"
    BY <1>7 DEF Encoding, TargetUsers, StatementTypes, LocalFields, UnpackOp0, UnpackOp1, RawLocals
  <2>3. \A slot \in Slots : slot \in {"path", "ops", "target"} \/ Encoding(t, slot) = "none"
    BY <1>0, <1>7 DEF Encoding, TargetUsers, StatementTypes, LocalFields, UnpackOp0, UnpackOp1, RawLocals
  <2> QED BY <2>1, <2>2, <2>3, ThreeItems DEF Slots
<1>8. CASE t = "Dot"
  <2>1. row = <<e("op0"), e("op1"), e("target")>> /\ ReadOrder(t) = row
    BY <1>8 DEF WriteOrder, ReadOrder, FirstHalf, WriteOrderToLen, ReadOrderToLen, E, Size, Opd, Ops,
                Encoding, TargetUsers, StatementTypes, LocalFields, UnpackOp0, UnpackOp1, RawLocals
  <2>2. Encoding(t, "op0") # "none" /\ Encoding(t, "op1") # "none" /\ Encoding(t, "target") # "none"
    BY <1>8 DEF Encoding, TargetUsers, StatementTypes, LocalFields, UnpackOp0, UnpackOp1, RawLocals
  <2>3. \A slot \in Slots : slot \in {"op0", "op1", "target"} \/ Encoding(t, slot) = "none"
    BY <1>0, <1>8 DEF Encoding, TargetUsers, StatementTypes, LocalFields, UnpackOp0, UnpackOp1, RawLocals
  <2> QED BY <2>1, <2>2, <2>3, ThreeItems DEF Slots
<1>9. CASE t = "Equal"
  <2>1. row = <<e("op0"), e("op1")>> /\ ReadOrder(t) = row
    BY <1>9 DEF WriteOrder, ReadOrder, FirstHalf, WriteOrderToLen, ReadOrderToLen, E, Size, Opd, Ops,
                Encoding, TargetUsers, StatementTypes, LocalFields, UnpackOp0, UnpackOp1, RawLocals
  <2>2. Encoding(t, "op0") # "none" /\ Encoding(t, "op1") # "none"
    BY <1>9 DEF Encoding, TargetUsers, StatementTypes, LocalFields, UnpackOp0, UnpackOp1, RawLocals
  <2>3. \A slot \in Slots : slot \in {"op0", "op1"} \/ Encoding(t, slot) = "none"
    BY <1>0, <1>9 DEF Encoding, TargetUsers, StatementTypes, LocalFields, UnpackOp0, UnpackOp1, RawLocals
  <2> QED BY <2>1, <2>2, <2>3, TwoItems DEF Slots
<1>10. CASE t \in {"IsArray", "IsObject", "IsSet"}
  <2>1. row = <<e("op0")>> /\ ReadOrder(t) = row
    BY <1>10 DEF WriteOrder, ReadOrder, FirstHalf, WriteOrderToLen, ReadOrderToLen, E, Size, Opd, Ops,
                Encoding, TargetUsers, StatementTypes, LocalFields, UnpackOp0, UnpackOp1, RawLocals
  <2>2. Encoding(t, "op0") # "none"
    BY <1>10 DEF Encoding, TargetUsers, StatementTypes, LocalFields, UnpackOp0, UnpackOp1, RawLocals
  <2>3. \A slot \in Slots : slot \in {"op0"} \/ Encoding(t, slot) = "none"
    BY <1>0, <1>10 DEF Encoding, TargetUsers, StatementTypes, LocalFields, UnpackOp0, UnpackOp1, RawLocals
  <2> QED BY <2>1, <2>2, <2>3, OneItem DEF Slots
<1>11. CASE t \in {"IsDefined", "IsUndefined"}
  <2>1. row = <<e("target")>> /\ ReadOrder(t) = row
    BY <1>11 DEF WriteOrder, ReadOrder, FirstHalf, WriteOrderToLen, ReadOrderToLen, E, Size, Opd, Ops,
                Encoding, TargetUsers, StatementTypes, LocalFields, UnpackOp0, UnpackOp1, RawLocals
  <2>2. Encoding(t, "target") # "none"
    BY <1>11 DEF Encoding, TargetUsers, StatementTypes, LocalFields, UnpackOp0, UnpackOp1, RawLocals
  <2>3. \A slot \in Slots : slot \in {"target"} \/ Encoding(t, slot) = "none"
    BY <1>0, <1>11 DEF Encoding, TargetUsers, StatementTypes, LocalFields, UnpackOp0, UnpackOp1, RawLocals
  <2> QED BY <2>1, <2>2, <2>3, OneItem DEF Slots
<1>12. CASE t = "MakeArray"
  <2>1. row = <<e("op0"), e("target")>> /\ ReadOrder(t) = row
    BY <1>12 DEF WriteOrder, ReadOrder, FirstHalf, WriteOrderFromMake, ReadOrderFromMake, WriteWith, ReadMerge, E, Size, Opd, Ops,
                Encoding, TargetUsers, StatementTypes, LocalFields, UnpackOp0, UnpackOp1, RawLocals
  <2>2. Encoding(t, "op0") # "none" /\ Encoding(t, "target") # "none"
    BY <1>12 DEF Encoding, TargetUsers, StatementTypes, LocalFields, UnpackOp0, UnpackOp1, RawLocals
  <2>3. \A slot \in Slots : slot \in {"op0", "target"} \/ Encoding(t, slot) = "none"
    BY <1>0, <1>12 DEF Encoding, TargetUsers, StatementTypes, LocalFields, UnpackOp0, UnpackOp1, RawLocals
  <2> QED BY <2>1, <2>2, <2>3, TwoItems DEF Slots
<1>13. CASE t = "MakeNumberInt"
  <2>1. row = <<e("op0"), e("target")>> /\ ReadOrder(t) = row
    BY <1>13 DEF WriteOrder, ReadOrder, FirstHalf, WriteOrderFromMake, ReadOrderFromMake, WriteWith, ReadMerge, E, Size, Opd, Ops,
                Encoding, TargetUsers, StatementTypes, LocalFields, UnpackOp0, UnpackOp1, RawLocals
  <2>2. Encoding(t, "op0") # "none" /\ Encoding(t, "target") # "none"
    BY <1>13 DEF Encoding, TargetUsers, StatementTypes, LocalFields, UnpackOp0, UnpackOp1, RawLocals
  <2>3. \A slot \in Slots : slot \in {"op0", "target"} \/ Encoding(t, slot) = "none"
    BY <1>0, <1>13 DEF Encoding, TargetUsers, StatementTypes, LocalFields, UnpackOp0, UnpackOp1, RawLocals
  <2> QED BY <2>1, <2>2, <2>3, TwoItems DEF Slots
<1>14. CASE t = "MakeNumberRef"
  <2>1. row = <<e("op0"), e("target")>> /\ ReadOrder(t) = row
    BY <1>14 DEF WriteOrder, ReadOrder, FirstHalf, WriteOrderFromMake, ReadOrderFromMake, WriteWith, ReadMerge, E, Size, Opd, Ops,
                Encoding, TargetUsers, StatementTypes, LocalFields, UnpackOp0, UnpackOp1, RawLocals
  <2>2. Encoding(t, "op0") # "none" /\ Encoding(t, "target") # "none"
    BY <1>14 DEF Encoding, TargetUsers, StatementTypes, LocalFields, UnpackOp0, UnpackOp1, RawLocals
  <2>3. \A slot \in Slots : slot \in {"op0", "target"} \/ Encoding(t, slot) = "none"
    BY <1>0, <1>14 DEF Encoding, TargetUsers, StatementTypes, LocalFields, UnpackOp0, UnpackOp1, RawLocals
  <2> QED BY <2>1, <2>2, <2>3, TwoItems DEF Slots
<1>15. CASE t \in {"MakeNull", "MakeObject", "MakeSet", "ResetLocal", "ResultSetAdd", "ReturnLocal"}
  <2>1. row = <<e("target")>> /\ ReadOrder(t) = row
    BY <1>15 DEF WriteOrder, ReadOrder, FirstHalf, WriteOrderFromMake, ReadOrderFromMake, WriteWith, ReadMerge, E, Size, Opd, Ops,
                Encoding, TargetUsers, StatementTypes, LocalFields, UnpackOp0, UnpackOp1, RawLocals
  <2>2. Encoding(t, "target") # "none"
    BY <1>15 DEF Encoding, TargetUsers, StatementTypes, LocalFields, UnpackOp0, UnpackOp1, RawLocals
  <2>3. \A slot \in Slots : slot \in {"target"} \/ Encoding(t, slot) = "none"
    BY <1>0, <1>15 DEF Encoding, TargetUsers, StatementTypes, LocalFields, UnpackOp0, UnpackOp1, RawLocals
  <2> QED BY <2>1, <2>2, <2>3, OneItem DEF Slots
<1>16. CASE t = "NotEqual"
  <2>1. row = <<e("op0"), e("op1")>> /\ ReadOrder(t) = row
    BY <1>16 DEF WriteOrder, ReadOrder, FirstHalf, WriteOrderFromMake, ReadOrderFromMake, WriteWith, ReadMerge, E, Size, Opd, Ops,
                Encoding, TargetUsers, StatementTypes, LocalFields, UnpackOp0, UnpackOp1, RawLocals
  <2>2. Encoding(t, "op0") # "none" /\ Encoding(t, "op1") # "none"
    BY <1>16 DEF Encoding, TargetUsers, StatementTypes, LocalFields, UnpackOp0, UnpackOp1, RawLocals
  <2>3. \A slot \in Slots : slot \in {"op0", "op1"} \/ Encoding(t, slot) = "none"
    BY <1>0, <1>16 DEF Encoding, TargetUsers, StatementTypes, LocalFields, UnpackOp0, UnpackOp1, RawLocals
  <2> QED BY <2>1, <2>2, <2>3, TwoItems DEF Slots
<1>17. CASE t = "Not"
  <2>1. row = <<e("blocks")>> /\ ReadOrder(t) = row
    BY <1>17 DEF WriteOrder, ReadOrder, FirstHalf, WriteOrderFromMake, ReadOrderFromMake, WriteWith, ReadMerge, E, Size, Opd, Ops,
                Encoding, TargetUsers, StatementTypes, LocalFields, UnpackOp0, UnpackOp1, RawLocals
  <2>2. Encoding(t, "blocks") # "none"
    BY <1>17 DEF Encoding, TargetUsers, StatementTypes, LocalFields, UnpackOp0, UnpackOp1, RawLocals
  <2>3. \A slot \in Slots : slot \in {"blocks"} \/ Encoding(t, slot) = "none"
    BY <1>0, <1>17 DEF Encoding, TargetUsers, StatementTypes, LocalFields, UnpackOp0, UnpackOp1, RawLocals
  <2> QED BY <2>1, <2>2, <2>3, OneItem DEF Slots
<1>18. CASE t \in {"ObjectInsertOnce", "ObjectInsert"}
  <2>1. row = <<e("op0"), e("op1"), e("target")>> /\ ReadOrder(t) = row
    BY <1>18 DEF WriteOrder, ReadOrder, FirstHalf, WriteOrderFromMake, ReadOrderFromMake, WriteWith, ReadMerge, E, Size, Opd, Ops,
                Encoding, TargetUsers, StatementTypes, LocalFields, UnpackOp0, UnpackOp1, RawLocals
  <2>2. Encoding(t, "op0") # "none" /\ Encoding(t, "op1") # "none" /\ Encoding(t, "target") # "none"
    BY <1>18 DEF Encoding, TargetUsers, StatementTypes, LocalFields, UnpackOp0, UnpackOp1, RawLocals
  <2>3. \A slot \in Slots : slot \in {"op0", "op1", "target"} \/ Encoding(t, slot) = "none"
    BY <1>0, <1>18 DEF Encoding, TargetUsers, StatementTypes, LocalFields, UnpackOp0, UnpackOp1, RawLocals
  <2> QED BY <2>1, <2>2, <2>3, ThreeItems DEF Slots
<1>19. CASE t = "ObjectMerge"
  <2>1. row = <<e("op0"), e("op1"), e("target")>> /\ ReadOrder(t) = row
    BY <1>19 DEF WriteOrder, ReadOrder, FirstHalf, WriteOrderFromMake, ReadOrderFromMake, WriteWith, ReadMerge, E, Size, Opd, Ops,
                Encoding, TargetUsers, StatementTypes, LocalFields, UnpackOp0, UnpackOp1, RawLocals
  <2>2. Encoding(t, "op0") # "none" /\ Encoding(t, "op1") # "none" /\ Encoding(t, "target") # "none"
    BY <1>19 DEF Encoding, TargetUsers, StatementTypes, LocalFields, UnpackOp0, UnpackOp1, RawLocals
  <2>3. \A slot \in Slots : slot \in {"op0", "op1", "target"} \/ Encoding(t, slot) = "none"
    BY <1>0, <1>19 DEF Encoding, TargetUsers, StatementTypes, LocalFields, UnpackOp0, UnpackOp1, RawLocals
  <2> QED BY <2>1, <2>2, <2>3, ThreeItems DEF Slots
<1>20. CASE t = "Scan"
  <2>1. row = <<e("target"), e("op0"), e("op1"), e("blocks")>> /\ ReadOrder(t) = row
    BY <1>20 DEF WriteOrder, ReadOrder, FirstHalf, WriteOrderFromMake, ReadOrderFromMake, WriteWith, ReadMerge, E, Size, Opd, Ops,
                Encoding, TargetUsers, StatementTypes, LocalFields, UnpackOp0, UnpackOp1, RawLocals
  <2>2. Encoding(t, "target") # "none" /\ Encoding(t, "op0") # "none" /\ Encoding(t, "op1") # "none" /\ Encoding(t, "blocks") # "none"
    BY <1>20 DEF Encoding, TargetUsers, StatementTypes, LocalFields, UnpackOp0, UnpackOp1, RawLocals
  <2>3. \A slot \in Slots : slot \in {"target", "op0", "op1", "blocks"} \/ Encoding(t, slot) = "none"
    BY <1>0, <1>20 DEF Encoding, TargetUsers, StatementTypes, LocalFields, UnpackOp0, UnpackOp1, RawLocals
  <2> QED BY <2>1, <2>2, <2>3, FourItems DEF Slots
<1>21. CASE t = "SetAdd"
  <2>1. row = <<e("op0"), e("target")>> /\ ReadOrder(t) = row
    BY <1>21 DEF WriteOrder, ReadOrder, FirstHalf, WriteOrderFromMake, ReadOrderFromMake, WriteWith, ReadMerge, E, Size, Opd, Ops,
                Encoding, TargetUsers, StatementTypes, LocalFields, UnpackOp0, UnpackOp1, RawLocals
  <2>2. Encoding(t, "op0") # "none" /\ Encoding(t, "target") # "none"
    BY <1>21 DEF Encoding, TargetUsers, StatementTypes, LocalFields, UnpackOp0, UnpackOp1, RawLocals
  <2>3. \A slot \in Slots : slot \in {"op0", "target"} \/ Encoding(t, slot) = "none"
    BY <1>0, <1>21 DEF Encoding, TargetUsers, StatementTypes, LocalFields, UnpackOp0, UnpackOp1, RawLocals
  <2> QED BY <2>1, <2>2, <2>3, TwoItems DEF Slots
<1>22. CASE t = "With"
  <2>1. row = <<e("target"), e("op0"), e("path"), e("blocks")>> /\ ReadOrder(t) = row
    BY <1>22 DEF WriteOrder, ReadOrder, FirstHalf, WriteOrderFromMake, ReadOrderFromMake, WriteWith, ReadMerge, E, Size, Opd, Ops,
                Encoding, TargetUsers, StatementTypes, LocalFields, UnpackOp0, UnpackOp1, RawLocals
  <2>2. Encoding(t, "target") # "none" /\ Encoding(t, "op0") # "none" /\ Encoding(t, "path") # "none" /\ Encoding(t, "blocks") # "none"
    BY <1>22 DEF Encoding, TargetUsers, StatementTypes, LocalFields, UnpackOp0, UnpackOp1, RawLocals
  <2>3. \A slot \in Slots : slot \in {"target", "op0", "path", "blocks"} \/ Encoding(t, slot) = "none"
    BY <1>0, <1>22 DEF Encoding, TargetUsers, StatementTypes, LocalFields, UnpackOp0, UnpackOp1, RawLocals
  <2> QED BY <2>1, <2>2, <2>3, FourItems DEF Slots
<1> QED BY TypeCases, <1>1, <1>2, <1>3, <1>4, <1>5, <1>6, <1>7, <1>8, <1>9, <1>10, <1>11, <1>12, <1>13, <1>14, <1>15, <1>16, <1>17, <1>18, <1>19, <1>20, <1>21, <1>22


(* What the reader finds for a slot of a statement that was written.       *)
LEMMA SlotRead ==
    ASSUME NEW st, st.type \in StatementTypes, NEW slot \in Slots, NEW d
    PROVE  LET enc == Encoding(st.type, slot)
               val == WriteItem(st, E(enc, slot)).val IN
           /\ enc = "none" => ReadSlot(WriteStatement(st), slot, d) = d
           /\ enc # "none" => ReadSlot(WriteStatement(st), slot, d) =
                IF slot \in {"op0", "op1"} /\ enc # "operand"
                  THEN Operand(ReadKind(st.type), val) ELSE val
<1> DEFINE t == st.type
           enc == Encoding(t, slot)
           row == WriteOrder(t)
           image == WriteStatement(st)
           at == {i \in 1..Len(row) : row[i].slot = slot}
<1>1. ReadOrder(t) = row /\ RowFits(row, t)
  BY RowsAgree
<1>2. /\ image.type = t /\ Len(row) \in Nat
      /\ \A i \in 1..Len(row) : image.items[i] = WriteItem(st, row[i])
  BY <1>1 DEF WriteStatement, RowFits
<1>3. ReadSlot(image, slot, d) =
        IF at = {} THEN d
        ELSE LET i == CHOOSE k \in at : TRUE
             IN  IF slot \in {"op0", "op1"} /\ row[i].enc # "operand"
                   THEN Operand(ReadKind(t), image.items[i].val)
                   ELSE image.items[i].val
  <2>1. image.type = t /\ ReadOrder(image.type) = row
    BY <1>1, <1>2
  <2> HIDE DEF image, row
  <2> QED BY <2>1 DEF ReadSlot
<1> HIDE DEF image, row
<1>4. ASSUME enc = "none" PROVE ReadSlot(image, slot, d) = d
  <2>1. ASSUME NEW i \in 1..Len(row), row[i].slot = slot PROVE FALSE
    <3>1. row[i] = E("none", slot) /\ row[i].enc # "none"
      BY <1>1, <1>4, <2>1 DEF RowFits
    <3> QED BY <3>1 DEF E
  <2>2. at = {}
    BY <2>1
  <2> QED BY <1>3, <2>2
<1>5. ASSUME enc # "none"
      PROVE  ReadSlot(image, slot, d) =
               IF slot \in {"op0", "op1"} /\ enc # "operand"
                 THEN Operand(ReadKind(t), WriteItem(st, E(enc, slot)).val)
                 ELSE WriteItem(st, E(enc, slot)).val
  <2> DEFINE j == CHOOSE k \in at : TRUE
  <2>1. at # {}
    BY <1>1, <1>5 DEF RowFits
  <2>2. j \in 1..Len(row) /\ row[j].slot = slot
    <3>1. j \in at
      BY <2>1
    <3> QED BY <3>1
  <2>3. row[j] = E(enc, slot) /\ image.items[j] = WriteItem(st, E(enc, slot))
    BY <1>1, <1>2, <2>2 DEF RowFits
  <2>4. row[j].enc = enc
    BY <2>3 DEF E
  <2>5. ReadSlot(image, slot, d) = IF slot \in {"op0", "op1"} /\ row[j].enc # "operand"
                                     THEN Operand(ReadKind(t), image.items[j].val)
                                     ELSE image.items[j].val
    BY <1>3, <2>1
  <2> QED BY <2>3, <2>4, <2>5
<1> QED BY <1>4, <1>5 DEF image

(***************************************************************************)
(* A compiled statement, lowered or read: what its type gives it is there, *)
(* and nothing else.                                                       *)
(***************************************************************************)
NumberKind(t, k) ==
  CASE t \in {"AssignInt", "MakeNumberInt", "MakeArray"} -> k \in {"Value", "None"}
    [] t = "MakeNumberRef" -> k \in {"Index", "String"}
    [] t = "Break" -> k = "Index"
    [] t \in RawLocals -> k \in {"Index", "Local"}
    [] OTHER -> FALSE

ExtShaped(ext, t) ==
  /\ ext = [func |-> ext.func, path |-> ext.path, ops |-> ext.ops, blocks |-> ext.blocks]
  /\ t # "Call" => ext.func = ""
  /\ t = "CallDynamic" => ext.path \in Seq(Operands)
  /\ t = "With" => ext.path \in Seq(Nat)
  /\ t \notin {"CallDynamic", "With"} => ext.path = <<>>
  /\ t \in {"Call", "CallDynamic"} => ext.ops \in Seq(Operands)
  /\ t \notin {"Call", "CallDynamic"} => ext.ops = <<>>
  /\ t \notin BlockHolders => ext.blocks = <<>>

Shaped(st) ==
  /\ st.type \in StatementTypes
  /\ st.type \in UnpackOp0 => st.op0 \in Operands
  /\ st.type \in UnpackOp1 => st.op1 \in Operands
  /\ st.type \in NumberOp0 => NumberKind(st.type, st.op0.kind)
  /\ st.type \in RawLocals => NumberKind(st.type, st.op1.kind)
  /\ st.type \notin UnpackOp0 \cup NumberOp0 => st.op0 = NoOperand
  /\ st.type \notin UnpackOp1 \cup RawLocals => st.op1 = NoOperand
  /\ ExtShaped(st.ext, st.type)

(***************************************************************************)
(* A statement that was written comes back with the same meaning, though a *)
(* number in it may come back with another kind.                           *)
(***************************************************************************)
LEMMA ReadBack ==
    ASSUME NEW st, Shaped(st)
    PROVE  LET r == ReadStatement(WriteStatement(st)) IN
           /\ Shaped(r) /\ Meaning(r) = Meaning(st)
           /\ r.type \in TargetUsers => r.target = st.target
           /\ r.type \in NumberOp0 => r.op0 = Operand(ReadKind(r.type), st.op0.n)
           /\ r.type \in RawLocals => r.op1 = Operand(ReadKind(r.type), st.op1.n)
<1> DEFINE t == st.type
           image == WriteStatement(st)
           r == ReadStatement(image)
<1>1. t \in StatementTypes /\ image.type = t /\ r.type = t
  BY DEF Shaped, WriteStatement, ReadStatement
<1>2. t \in TargetUsers => r.target = st.target
  <2>1. ReadSlot(image, "target", 0) = r.target
    BY DEF ReadStatement
  <2>2. t \in TargetUsers => Encoding(t, "target") = "size" /\ SlotValue(st, "target") = st.target
    BY DEF Encoding, SlotValue
  <2>3. t \in TargetUsers => WriteItem(st, E("size", "target")).val = st.target
    BY <2>2 DEF WriteItem, E
  <2>4. "target" \in Slots
    BY DEF Slots
  <2> QED BY <1>1, <2>1, <2>2, <2>3, <2>4, SlotRead
<1>3. /\ t \in UnpackOp0 => r.op0 = st.op0
      /\ t \in NumberOp0 => r.op0 = Operand(ReadKind(t), st.op0.n)
      /\ t \notin UnpackOp0 \cup NumberOp0 => r.op0 = NoOperand
  <2>1. ReadSlot(image, "op0", NoOperand) = r.op0 /\ SlotValue(st, "op0") = st.op0
    BY DEF ReadStatement, SlotValue
  <2>2. /\ t \in UnpackOp0 => Encoding(t, "op0") = "operand"
        /\ t \in NumberOp0 => Encoding(t, "op0") \in {"size", "int32", "int64"}
        /\ t \notin UnpackOp0 \cup NumberOp0 => Encoding(t, "op0") = "none"
    BY DEF Encoding, UnpackOp0, NumberOp0
  <2>3. /\ WriteItem(st, E("operand", "op0")).val = st.op0
        /\ \A enc \in {"size", "int32", "int64"} : WriteItem(st, E(enc, "op0")).val = st.op0.n
    BY <2>1 DEF WriteItem, E
  <2>4. "op0" \in Slots
    BY DEF Slots
  <2> QED BY <1>1, <2>1, <2>2, <2>3, <2>4, SlotRead
<1>4. /\ t \in UnpackOp1 => r.op1 = st.op1
      /\ t \in RawLocals => r.op1 = Operand(ReadKind(t), st.op1.n)
      /\ t \notin UnpackOp1 \cup RawLocals => r.op1 = NoOperand
  <2>1. ReadSlot(image, "op1", NoOperand) = r.op1 /\ SlotValue(st, "op1") = st.op1
    BY DEF ReadStatement, SlotValue
  <2>2. /\ t \in UnpackOp1 => Encoding(t, "op1") = "operand"
        /\ t \in RawLocals => Encoding(t, "op1") = "size"
        /\ t \notin UnpackOp1 \cup RawLocals => Encoding(t, "op1") = "none"
    BY DEF Encoding, UnpackOp1, RawLocals
  <2>3. /\ WriteItem(st, E("operand", "op1")).val = st.op1
        /\ WriteItem(st, E("size", "op1")).val = st.op1.n
    BY <2>1 DEF WriteItem, E
  <2>4. "op1" \in Slots
    BY DEF Slots
  <2> QED BY <1>1, <2>1, <2>2, <2>3, <2>4, SlotRead
<1>5. r.ext = st.ext
  <2> DEFINE got(slot, d) == ReadSlot(image, slot, d)
  <2>1. r.ext = [func |-> got("func", ""), path |-> got("path", <<>>), ops |-> got("ops", <<>>),
                 blocks |-> IF t \in BlockHolders THEN got("blocks", <<>>) ELSE <<>>]
    BY <1>1 DEF ReadStatement, BlockHolders
  <2>2. \A slot \in {"func", "path", "ops", "blocks"} :
          \A enc \in {"string", "operands8", "ipath8", "block", "blocks"} :
            WriteItem(st, E(enc, slot)).val = st.ext[slot]
    BY DEF WriteItem, E, SlotValue
  <2>3. \A slot \in {"func", "path", "ops", "blocks"} :
          slot \in Slots /\ slot \notin {"op0", "op1"}
    BY DEF Slots
  <2>4. \A slot \in {"func", "path", "ops", "blocks"} : \A d :
          /\ Encoding(t, slot) = "none" => got(slot, d) = d
          /\ Encoding(t, slot) \in {"string", "operands8", "ipath8", "block", "blocks"}
               => got(slot, d) = st.ext[slot]
    BY <1>1, <2>2, <2>3, SlotRead
  <2>5. /\ Encoding(t, "func") = IF t = "Call" THEN "string" ELSE "none"
        /\ Encoding(t, "path") = IF t = "CallDynamic" THEN "operands8"
                                 ELSE IF t = "With" THEN "ipath8" ELSE "none"
        /\ Encoding(t, "ops") = IF t \in {"Call", "CallDynamic"} THEN "operands8" ELSE "none"
        /\ Encoding(t, "blocks") = IF t = "Block" THEN "blocks"
                                   ELSE IF t \in BlockHolders THEN "block" ELSE "none"
    BY DEF Encoding, BlockHolders
  <2> HIDE DEF got
  <2>6. got("func", "") = st.ext.func
    BY <2>4, <2>5 DEF Shaped, ExtShaped
  <2>7. got("path", <<>>) = st.ext.path
    BY <2>4, <2>5 DEF Shaped, ExtShaped
  <2>8. got("ops", <<>>) = st.ext.ops
    BY <2>4, <2>5 DEF Shaped, ExtShaped
  <2>9. (IF t \in BlockHolders THEN got("blocks", <<>>) ELSE <<>>) = st.ext.blocks
    BY <2>4, <2>5 DEF Shaped, ExtShaped, BlockHolders
  <2> QED BY <2>1, <2>6, <2>7, <2>8, <2>9 DEF Shaped, ExtShaped
<1> HIDE DEF image, r
<1>6. Meaning(r) = Meaning(st)
  <2>1. r.op0.n = st.op0.n /\ r.op1.n = st.op1.n
    BY <1>3, <1>4 DEF Operand, NoOperand, Shaped
  <2> QED BY <1>1, <1>2, <1>3, <1>4, <1>5, <2>1 DEF Meaning
<1>7. Shaped(r)
  <2>1. t \in NumberOp0 => NumberKind(t, ReadKind(t))
    BY DEF NumberKind, ReadKind, NumberOp0, RawLocals
  <2>2. t \in RawLocals => t \in NumberOp0
    BY DEF RawLocals, NumberOp0
  <2>3. \A k, n : Operand(k, n).kind = k
    BY DEF Operand
  <2> QED BY <1>1, <1>3, <1>4, <1>5, <2>1, <2>2, <2>3 DEF Shaped
<1> QED BY <1>1, <1>2, <1>3, <1>4, <1>6, <1>7 DEF image, r

(***************************************************************************)
(* What node_to_statement puts into a slot is what the slot is for.        *)
(***************************************************************************)
LoweredFrom(src, t) == src.how = "op" /\ src.field \in OperandFields(t) \ LocalFields[t]

RowSound(row, t) ==
  /\ t \in UnpackOp0 => LoweredFrom(row.op0, t)
  /\ t \in UnpackOp1 => LoweredFrom(row.op1, t)
  /\ t \in NumberOp0 => row.op0.how \in {"Index", "Value"} /\ NumberKind(t, row.op0.how)
  /\ t \in RawLocals => row.op1.how = "Index"
  /\ t \notin UnpackOp0 \cup NumberOp0 => row.op0.how = "none"
  /\ t \notin UnpackOp1 \cup RawLocals => row.op1.how = "none"

LEMMA LoweringSound ==
    ASSUME NEW t \in StatementTypes
    PROVE  RowSound(Lowering(t), t)
<1>0. Unset.how = "none" /\ \A x : Op(x).how = "op" /\ Op(x).field = x
  BY DEF Unset, Op
<1>1. CASE t \in {"ArrayAppend", "SetAdd"}
  <2>1. Lowering(t).op0 = Op("Val") /\ Lowering(t).op1 = Unset
    BY <1>1 DEF Lowering, FirstHalf, LoweringToLen, LoweringLen, LoweringFromMake, Row, Op, Unset
  <2>2. "Val" \in OperandFields(t) \ LocalFields[t]
    BY <1>1 DEF OperandFields, LocalFields
  <2>3. t \in UnpackOp0 /\ t \notin UnpackOp1 /\ t \notin NumberOp0 /\ t \notin RawLocals
    BY <1>1 DEF UnpackOp0, UnpackOp1, NumberOp0, RawLocals
  <2>4. /\ Lowering(t).op0.how = "op" /\ Lowering(t).op0.field = "Val"
        /\ Lowering(t).op1.how = "none"
    BY <1>0, <2>1
  <2> QED BY <2>2, <2>3, <2>4 DEF RowSound, LoweredFrom
<1>2. CASE t \in {"AssignVarOnce", "AssignVar", "Len", "IsArray", "IsObject", "IsSet"}
  <2>1. Lowering(t).op0 = Op("Src") /\ Lowering(t).op1 = Unset
    BY <1>2 DEF Lowering, FirstHalf, LoweringToLen, LoweringLen, LoweringFromMake, Row, Op, Unset
  <2>2. "Src" \in OperandFields(t) \ LocalFields[t]
    BY <1>2 DEF OperandFields, LocalFields
  <2>3. t \in UnpackOp0 /\ t \notin UnpackOp1 /\ t \notin NumberOp0 /\ t \notin RawLocals
    BY <1>2 DEF UnpackOp0, UnpackOp1, NumberOp0, RawLocals
  <2>4. /\ Lowering(t).op0.how = "op" /\ Lowering(t).op0.field = "Src"
        /\ Lowering(t).op1.how = "none"
    BY <1>0, <2>1
  <2> QED BY <2>2, <2>3, <2>4 DEF RowSound, LoweredFrom
<1>3. CASE t \in {"AssignInt", "MakeNumberInt", "MakeArray"}
  BY <1>3 DEF Lowering, FirstHalf, LoweringToLen, LoweringLen, LoweringFromMake, Row, Op, Idx, Val, Unset,
     RowSound, LoweredFrom, OperandFields, LocalFields, UnpackOp0, UnpackOp1, NumberOp0, RawLocals, NumberKind
<1>4. CASE t \in {"Break", "MakeNumberRef"}
  BY <1>4 DEF Lowering, FirstHalf, LoweringToLen, LoweringLen, LoweringFromMake, Row, Op, Idx, Val, Unset,
     RowSound, LoweredFrom, OperandFields, LocalFields, UnpackOp0, UnpackOp1, NumberOp0, RawLocals, NumberKind
<1>5. CASE t \in {"Block", "Call", "CallDynamic", "IsDefined", "IsUndefined"}
  BY <1>5 DEF Lowering, FirstHalf, LoweringToLen, LoweringLen, LoweringFromMake, Row, Op, Idx, Val, Unset,
     RowSound, LoweredFrom, OperandFields, LocalFields, UnpackOp0, UnpackOp1, NumberOp0, RawLocals, NumberKind
<1>6. CASE t \in {"MakeNull", "MakeObject", "MakeSet", "ResetLocal"}
  BY <1>6 DEF Lowering, FirstHalf, LoweringToLen, LoweringLen, LoweringFromMake, Row, Op, Idx, Val, Unset,
     RowSound, LoweredFrom, OperandFields, LocalFields, UnpackOp0, UnpackOp1, NumberOp0, RawLocals, NumberKind
<1>7. CASE t \in {"Not", "ResultSetAdd", "ReturnLocal"}
  BY <1>7 DEF Lowering, FirstHalf, LoweringToLen, LoweringLen, LoweringFromMake, Row, Op, Idx, Val, Unset,
     RowSound, LoweredFrom, OperandFields, LocalFields, UnpackOp0, UnpackOp1, NumberOp0, RawLocals, NumberKind
<1>8. CASE t = "Dot"
  BY <1>8 DEF Lowering, FirstHalf, LoweringToLen, LoweringLen, LoweringFromMake, Row, Op, Idx, Val, Unset,
     RowSound, LoweredFrom, OperandFields, LocalFields, UnpackOp0, UnpackOp1, NumberOp0, RawLocals, NumberKind
<1>9. CASE t \in {"Equal", "NotEqual"}
  <2>1. Lowering(t).op0 = Op("Lhs") /\ Lowering(t).op1 = Op("Rhs")
    BY <1>9 DEF Lowering, FirstHalf, LoweringToLen, LoweringLen, LoweringFromMake, Row, Op, Unset
  <2>2. {"Lhs", "Rhs"} \subseteq OperandFields(t) \ LocalFields[t]
    BY <1>9 DEF OperandFields, LocalFields
  <2> QED BY <1>9, <2>1, <2>2 DEF RowSound, LoweredFrom, Op, Unset, UnpackOp0, UnpackOp1, NumberOp0, RawLocals
<1>10. CASE t \in {"ObjectInsertOnce", "ObjectInsert"}
  <2>1. Lowering(t).op0 = Op("Key") /\ Lowering(t).op1 = Op("Val")
    BY <1>10 DEF Lowering, FirstHalf, LoweringToLen, LoweringLen, LoweringFromMake, Row, Op, Unset
  <2>2. {"Key", "Val"} \subseteq OperandFields(t) \ LocalFields[t]
    BY <1>10 DEF OperandFields, LocalFields
  <2> QED BY <1>10, <2>1, <2>2 DEF RowSound, LoweredFrom, Op, Unset, UnpackOp0, UnpackOp1, NumberOp0, RawLocals
<1>11. CASE t = "ObjectMerge"
  BY <1>11 DEF Lowering, FirstHalf, LoweringToLen, LoweringLen, LoweringFromMake, Row, Op, Idx, Val, Unset,
     RowSound, LoweredFrom, OperandFields, LocalFields, UnpackOp0, UnpackOp1, NumberOp0, RawLocals, NumberKind
<1>12. CASE t = "Scan"
  BY <1>12 DEF Lowering, FirstHalf, LoweringToLen, LoweringLen, LoweringFromMake, Row, Op, Idx, Val, Unset,
     RowSound, LoweredFrom, OperandFields, LocalFields, UnpackOp0, UnpackOp1, NumberOp0, RawLocals, NumberKind
<1>13. CASE t = "With"
  BY <1>13 DEF Lowering, FirstHalf, LoweringToLen, LoweringLen, LoweringFromMake, Row, Op, Idx, Val, Unset,
     RowSound, LoweredFrom, OperandFields, LocalFields, UnpackOp0, UnpackOp1, NumberOp0, RawLocals, NumberKind
<1> QED BY TypeCases, <1>1, <1>2, <1>3, <1>4, <1>5, <1>6, <1>7, <1>8, <1>9, <1>10, <1>11, <1>12, <1>13

LEMMA Lowered ==
    ASSUME NEW s, StatementWellFormed(s)
    PROVE  Shaped(LowerStatement(s))
<1> DEFINE t == s.type
           row == Lowering(t)
           st == LowerStatement(s)
<1>1. t \in StatementTypes /\ st.type = t /\ RowSound(row, t)
  BY LoweringSound DEF StatementWellFormed, LowerStatement
<1>2. st.op0 = LowerOperand(s, row.op0) /\ st.op1 = LowerOperand(s, row.op1)
      /\ st.ext = LowerExt(s)
  BY DEF LowerStatement
<1> HIDE DEF row, st
<1>3. ASSUME NEW src, LoweredFrom(src, t)
      PROVE  LowerOperand(s, src) \in Operands
  <2>1. LowerOperand(s, src) = s.f[src.field]
    BY <1>3 DEF LoweredFrom, LowerOperand
  <2>2. src.field \in Fields(t) /\ s.f[src.field] \in FieldValues(t, src.field)
    BY <1>3 DEF LoweredFrom, StatementWellFormed, Fields
  <2>3. src.field \in {"Val", "Src", "Key", "Lhs", "Rhs"} /\ src.field \notin LocalFields[t]
    BY <1>3 DEF LoweredFrom, OperandFields
  <2>4. FieldValues(t, src.field) = Operands
    BY <1>3, <2>3 DEF LoweredFrom, FieldValues
  <2> QED BY <2>1, <2>2, <2>4
<1>4. ASSUME NEW src
      PROVE  /\ src.how = "none" => LowerOperand(s, src) = NoOperand
             /\ src.how \in {"Index", "Value"} => LowerOperand(s, src).kind = src.how
  BY DEF LowerOperand, Operand
<1>5. ExtShaped(st.ext, t)
  <2>1. /\ t = "Call" => s.f["Args"] \in Seq(Operands)
        /\ t = "CallDynamic" => s.f["Args"] \in Seq(Operands) /\ s.f["Path"] \in Seq(Operands)
        /\ t = "With" => s.f["Path"] \in Seq(Nat)
    <3>1. ASSUME t \in {"Call", "CallDynamic"} PROVE s.f["Args"] \in Seq(Operands)
      <4>1. "Args" \in Fields(t) /\ FieldValues(t, "Args") = Seq(Operands)
        BY <3>1 DEF Fields, OtherFields, FieldValues, LocalFields, OperandFields
      <4> QED BY <4>1 DEF StatementWellFormed
    <3>2. ASSUME t = "CallDynamic" PROVE s.f["Path"] \in Seq(Operands)
      <4>1. "Path" \in Fields(t) /\ FieldValues(t, "Path") = Seq(Operands)
        BY <3>2 DEF Fields, OtherFields, FieldValues, LocalFields, OperandFields
      <4> QED BY <4>1 DEF StatementWellFormed
    <3>3. ASSUME t = "With" PROVE s.f["Path"] \in Seq(Nat)
      <4>1. "Path" \in Fields(t) /\ FieldValues(t, "Path") = Seq(Nat)
        BY <3>3 DEF Fields, OtherFields, FieldValues, LocalFields, OperandFields
      <4> QED BY <4>1 DEF StatementWellFormed
    <3> QED BY <3>1, <3>2, <3>3
  <2> DEFINE F == IF t = "Call" THEN s.f["Func"] ELSE ""
             P == IF t \in {"CallDynamic", "With"} THEN s.f["Path"] ELSE <<>>
             O == IF t \in {"Call", "CallDynamic"} THEN s.f["Args"] ELSE <<>>
             B == IF t = "Block" THEN s.f["Blocks"]
                  ELSE IF t \in BlockHolders THEN <<s.f["Block"]>> ELSE <<>>
  <2>2. st.ext = [func |-> F, path |-> P, ops |-> O, blocks |-> B]
    <3>1. CASE t = "Call"
      BY <1>2, <3>1 DEF LowerExt, NoExt, BlockHolders
    <3>2. CASE t = "CallDynamic"
      BY <1>2, <3>2 DEF LowerExt, NoExt, BlockHolders
    <3>3. CASE t = "With"
      BY <1>2, <3>3 DEF LowerExt, NoExt, BlockHolders
    <3>4. CASE t \in {"Block", "Not", "Scan"}
      BY <1>2, <3>4 DEF LowerExt, NoExt, BlockHolders
    <3>5. CASE t \notin {"Call", "CallDynamic", "Block", "Not", "Scan", "With"}
      BY <1>2, <3>5 DEF LowerExt, NoExt, BlockHolders
    <3> QED BY <3>1, <3>2, <3>3, <3>4, <3>5
  <2>3. t # "Call" => F = ""
    OBVIOUS
  <2>4. /\ t = "CallDynamic" => P \in Seq(Operands)
        /\ t = "With" => P \in Seq(Nat)
        /\ t \notin {"CallDynamic", "With"} => P = <<>>
    BY <2>1
  <2>5. /\ t \in {"Call", "CallDynamic"} => O \in Seq(Operands)
        /\ t \notin {"Call", "CallDynamic"} => O = <<>>
    BY <2>1
  <2>6. t \notin BlockHolders => B = <<>>
    BY DEF BlockHolders
  <2> HIDE DEF F, P, O, B
  <2>7. st.ext.func = F /\ st.ext.path = P /\ st.ext.ops = O /\ st.ext.blocks = B
    BY <2>2
  <2>8. st.ext = [func |-> st.ext.func, path |-> st.ext.path, ops |-> st.ext.ops,
                  blocks |-> st.ext.blocks]
    BY <2>2, <2>7
  <2> QED BY <2>3, <2>4, <2>5, <2>6, <2>7, <2>8 DEF ExtShaped
<1>6. /\ t \in RawLocals => NumberKind(t, "Index") /\ st.op1.kind = "Index"
      /\ t \in NumberOp0 => NumberKind(t, st.op0.kind)
  <2>1. t \in RawLocals => NumberKind(t, "Index")
    BY DEF NumberKind, RawLocals
  <2>2. t \in NumberOp0 => st.op0.kind = row.op0.how
    BY <1>1, <1>2, <1>4 DEF RowSound
  <2>3. t \in RawLocals => st.op1.kind = "Index"
    BY <1>1, <1>2, <1>4 DEF RowSound
  <2> QED BY <1>1, <2>1, <2>2, <2>3 DEF RowSound
<1>7. /\ t \in UnpackOp0 => st.op0 \in Operands
      /\ t \in UnpackOp1 => st.op1 \in Operands
      /\ t \notin UnpackOp0 \cup NumberOp0 => st.op0 = NoOperand
      /\ t \notin UnpackOp1 \cup RawLocals => st.op1 = NoOperand
  BY <1>1, <1>2, <1>3, <1>4 DEF RowSound
<1> QED BY <1>1, <1>5, <1>6, <1>7 DEF Shaped, st

(***************************************************************************)
(* bundle_to_json and json_to_bundle name the members of a statement the   *)
(* same way: a member for each of its fields, and no two fields share one. *)
(***************************************************************************)
KeysFit(keys, t) ==
  /\ DOMAIN keys = Fields(t)
  /\ \A x, y \in DOMAIN keys : keys[x] = keys[y] => x = y

LEMMA KeysAgree ==
    ASSUME NEW t \in StatementTypes
    PROVE  WriteKeys(t) = ReadKeys(t) /\ KeysFit(WriteKeys(t), t)
<1>1. CASE t = "ArrayAppend"
  <2>1. WriteKeys(t) = [Array |-> "array", Val |-> "value"] /\ ReadKeys(t) = WriteKeys(t)
    BY <1>1 DEF WriteKeys, WriteKeysToCall, WriteKeysToLen, WriteKeysToNot, WriteKeysToWith,
           ReadKeys, ReadKeysToCall, ReadKeysToLen, ReadKeysToNot, ReadKeysToReturn, ReadKeysToWith,
           Bin, Insert, Source, SourceTarget, TargetOnly, ValueTarget
  <2>2. KeysFit([Array |-> "array", Val |-> "value"], t)
    BY <1>1 DEF KeysFit, Fields, LocalFields, OperandFields, OtherFields
  <2> QED BY <2>1, <2>2
<1>2. CASE t \in {"AssignInt", "MakeNumberInt"}
  <2>1. WriteKeys(t) = ValueTarget /\ ReadKeys(t) = WriteKeys(t)
    <3>1. CASE t = "AssignInt"
      BY <3>1 DEF WriteKeys, WriteKeysToCall, WriteKeysToLen, WriteKeysToNot, WriteKeysToWith,
           ReadKeys, ReadKeysToCall, ReadKeysToLen, ReadKeysToNot, ReadKeysToReturn, ReadKeysToWith,
           Bin, Insert, Source, SourceTarget, TargetOnly, ValueTarget
    <3>2. CASE t = "MakeNumberInt"
      BY <3>2 DEF WriteKeys, WriteKeysToCall, WriteKeysToLen, WriteKeysToNot, WriteKeysToWith,
           ReadKeys, ReadKeysToCall, ReadKeysToLen, ReadKeysToNot, ReadKeysToReturn, ReadKeysToWith,
           Bin, Insert, Source, SourceTarget, TargetOnly, ValueTarget
    <3> QED BY <1>2, <3>1, <3>2
  <2>2. KeysFit(ValueTarget, t)
    BY <1>2 DEF KeysFit, Fields, LocalFields, OperandFields, OtherFields, ValueTarget
  <2> QED BY <2>1, <2>2
<1>3. CASE t \in {"AssignVarOnce", "AssignVar", "Len"}
  <2>1. WriteKeys(t) = SourceTarget /\ ReadKeys(t) = WriteKeys(t)
    <3>1. CASE t = "AssignVarOnce"
      BY <3>1 DEF WriteKeys, WriteKeysToCall, WriteKeysToLen, WriteKeysToNot, WriteKeysToWith,
           ReadKeys, ReadKeysToCall, ReadKeysToLen, ReadKeysToNot, ReadKeysToReturn, ReadKeysToWith,
           Bin, Insert, Source, SourceTarget, TargetOnly, ValueTarget
    <3>2. CASE t = "AssignVar"
      BY <3>2 DEF WriteKeys, WriteKeysToCall, WriteKeysToLen, WriteKeysToNot, WriteKeysToWith,
           ReadKeys, ReadKeysToCall, ReadKeysToLen, ReadKeysToNot, ReadKeysToReturn, ReadKeysToWith,
           Bin, Insert, Source, SourceTarget, TargetOnly, ValueTarget
    <3>3. CASE t = "Len"
      BY <3>3 DEF WriteKeys, WriteKeysToCall, WriteKeysToLen, WriteKeysToNot, WriteKeysToWith,
           ReadKeys, ReadKeysToCall, ReadKeysToLen, ReadKeysToNot, ReadKeysToReturn, ReadKeysToWith,
           Bin, Insert, Source, SourceTarget, TargetOnly, ValueTarget
    <3> QED BY <1>3, <3>1, <3>2, <3>3
  <2>2. KeysFit(SourceTarget, t)
    BY <1>3 DEF KeysFit, Fields, LocalFields, OperandFields, OtherFields, SourceTarget
  <2> QED BY <2>1, <2>2
<1>4. CASE t = "Block"
  <2>1. WriteKeys(t) = [Blocks |-> "blocks"] /\ ReadKeys(t) = WriteKeys(t)
    BY <1>4 DEF WriteKeys, WriteKeysToCall, WriteKeysToLen, WriteKeysToNot, WriteKeysToWith,
           ReadKeys, ReadKeysToCall, ReadKeysToLen, ReadKeysToNot, ReadKeysToReturn, ReadKeysToWith,
           Bin, Insert, Source, SourceTarget, TargetOnly, ValueTarget
  <2>2. KeysFit([Blocks |-> "blocks"], t)
    BY <1>4 DEF KeysFit, Fields, LocalFields, OperandFields, OtherFields
  <2> QED BY <2>1, <2>2
<1>5. CASE t = "Break"
  <2>1. WriteKeys(t) = [Idx |-> "index"] /\ ReadKeys(t) = WriteKeys(t)
    BY <1>5 DEF WriteKeys, WriteKeysToCall, WriteKeysToLen, WriteKeysToNot, WriteKeysToWith,
           ReadKeys, ReadKeysToCall, ReadKeysToLen, ReadKeysToNot, ReadKeysToReturn, ReadKeysToWith,
           Bin, Insert, Source, SourceTarget, TargetOnly, ValueTarget
  <2>2. KeysFit([Idx |-> "index"], t)
    BY <1>5 DEF KeysFit, Fields, LocalFields, OperandFields, OtherFields
  <2> QED BY <2>1, <2>2
<1>6. CASE t = "CallDynamic"
  <2>1. WriteKeys(t) = [Path |-> "path", Args |-> "args", Result |-> "result"] /\ ReadKeys(t) = WriteKeys(t)
    BY <1>6 DEF WriteKeys, WriteKeysToCall, WriteKeysToLen, WriteKeysToNot, WriteKeysToWith,
           ReadKeys, ReadKeysToCall, ReadKeysToLen, ReadKeysToNot, ReadKeysToReturn, ReadKeysToWith,
           Bin, Insert, Source, SourceTarget, TargetOnly, ValueTarget
  <2>2. KeysFit([Path |-> "path", Args |-> "args", Result |-> "result"], t)
    BY <1>6 DEF KeysFit, Fields, LocalFields, OperandFields, OtherFields
  <2> QED BY <2>1, <2>2
<1>7. CASE t = "Call"
  <2>1. WriteKeys(t) = [Func |-> "func", Args |-> "args", Result |-> "result"] /\ ReadKeys(t) = WriteKeys(t)
    BY <1>7 DEF WriteKeys, WriteKeysToCall, WriteKeysToLen, WriteKeysToNot, WriteKeysToWith,
           ReadKeys, ReadKeysToCall, ReadKeysToLen, ReadKeysToNot, ReadKeysToReturn, ReadKeysToWith,
           Bin, Insert, Source, SourceTarget, TargetOnly, ValueTarget
  <2>2. KeysFit([Func |-> "func", Args |-> "args", Result |-> "result"], t)
    BY <1>7 DEF KeysFit, Fields, LocalFields, OperandFields, OtherFields
  <2> QED BY <2>1, <2>2
<1>8. CASE t = "Dot"
  <2>1. WriteKeys(t) = [Src |-> "source", Key |-> "key", Target |-> "target"] /\ ReadKeys(t) = WriteKeys(t)
    BY <1>8 DEF WriteKeys, WriteKeysToCall, WriteKeysToLen, WriteKeysToNot, WriteKeysToWith,
           ReadKeys, ReadKeysToCall, ReadKeysToLen, ReadKeysToNot, ReadKeysToReturn, ReadKeysToWith,
           Bin, Insert, Source, SourceTarget, TargetOnly, ValueTarget
  <2>2. KeysFit([Src |-> "source", Key |-> "key", Target |-> "target"], t)
    BY <1>8 DEF KeysFit, Fields, LocalFields, OperandFields, OtherFields
  <2> QED BY <2>1, <2>2
<1>9. CASE t \in {"Equal", "NotEqual"}
  <2>1. WriteKeys(t) = Bin /\ ReadKeys(t) = WriteKeys(t)
    <3>1. CASE t = "Equal"
      BY <3>1 DEF WriteKeys, WriteKeysToCall, WriteKeysToLen, WriteKeysToNot, WriteKeysToWith,
           ReadKeys, ReadKeysToCall, ReadKeysToLen, ReadKeysToNot, ReadKeysToReturn, ReadKeysToWith,
           Bin, Insert, Source, SourceTarget, TargetOnly, ValueTarget
    <3>2. CASE t = "NotEqual"
      BY <3>2 DEF WriteKeys, WriteKeysToCall, WriteKeysToLen, WriteKeysToNot, WriteKeysToWith,
           ReadKeys, ReadKeysToCall, ReadKeysToLen, ReadKeysToNot, ReadKeysToReturn, ReadKeysToWith,
           Bin, Insert, Source, SourceTarget, TargetOnly, ValueTarget
    <3> QED BY <1>9, <3>1, <3>2
  <2>2. KeysFit(Bin, t)
    BY <1>9 DEF KeysFit, Fields, LocalFields, OperandFields, OtherFields, Bin
  <2> QED BY <2>1, <2>2
<1>10. CASE t \in {"IsArray", "IsDefined", "IsObject", "IsSet", "IsUndefined", "ReturnLocal"}
  <2>1. WriteKeys(t) = Source /\ ReadKeys(t) = WriteKeys(t)
    <3>1. CASE t = "IsArray"
      BY <3>1 DEF WriteKeys, WriteKeysToCall, WriteKeysToLen, WriteKeysToNot, WriteKeysToWith,
           ReadKeys, ReadKeysToCall, ReadKeysToLen, ReadKeysToNot, ReadKeysToReturn, ReadKeysToWith,
           Bin, Insert, Source, SourceTarget, TargetOnly, ValueTarget
    <3>2. CASE t = "IsDefined"
      BY <3>2 DEF WriteKeys, WriteKeysToCall, WriteKeysToLen, WriteKeysToNot, WriteKeysToWith,
           ReadKeys, ReadKeysToCall, ReadKeysToLen, ReadKeysToNot, ReadKeysToReturn, ReadKeysToWith,
           Bin, Insert, Source, SourceTarget, TargetOnly, ValueTarget
    <3>3. CASE t = "IsObject"
      BY <3>3 DEF WriteKeys, WriteKeysToCall, WriteKeysToLen, WriteKeysToNot, WriteKeysToWith,
           ReadKeys, ReadKeysToCall, ReadKeysToLen, ReadKeysToNot, ReadKeysToReturn, ReadKeysToWith,
           Bin, Insert, Source, SourceTarget, TargetOnly, ValueTarget
    <3>4. CASE t = "IsSet"
      BY <3>4 DEF WriteKeys, WriteKeysToCall, WriteKeysToLen, WriteKeysToNot, WriteKeysToWith,
           ReadKeys, ReadKeysToCall, ReadKeysToLen, ReadKeysToNot, ReadKeysToReturn, ReadKeysToWith,
           Bin, Insert, Source, SourceTarget, TargetOnly, ValueTarget
    <3>5. CASE t = "IsUndefined"
      BY <3>5 DEF WriteKeys, WriteKeysToCall, WriteKeysToLen, WriteKeysToNot, WriteKeysToWith,
           ReadKeys, ReadKeysToCall, ReadKeysToLen, ReadKeysToNot, ReadKeysToReturn, ReadKeysToWith,
           Bin, Insert, Source, SourceTarget, TargetOnly, ValueTarget
    <3>6. CASE t = "ReturnLocal"
      BY <3>6 DEF WriteKeys, WriteKeysToCall, WriteKeysToLen, WriteKeysToNot, WriteKeysToWith,
           ReadKeys, ReadKeysToCall, ReadKeysToLen, ReadKeysToNot, ReadKeysToReturn, ReadKeysToWith,
           Bin, Insert, Source, SourceTarget, TargetOnly, ValueTarget
    <3> QED BY <1>10, <3>1, <3>2, <3>3, <3>4, <3>5, <3>6
  <2>2. KeysFit(Source, t)
    BY <1>10 DEF KeysFit, Fields, LocalFields, OperandFields, OtherFields, Source
  <2> QED BY <2>1, <2>2
<1>11. CASE t = "MakeArray"
  <2>1. WriteKeys(t) = [Capacity |-> "capacity", Target |-> "target"] /\ ReadKeys(t) = WriteKeys(t)
    BY <1>11 DEF WriteKeys, WriteKeysToCall, WriteKeysToLen, WriteKeysToNot, WriteKeysToWith,
           ReadKeys, ReadKeysToCall, ReadKeysToLen, ReadKeysToNot, ReadKeysToReturn, ReadKeysToWith,
           Bin, Insert, Source, SourceTarget, TargetOnly, ValueTarget
  <2>2. KeysFit([Capacity |-> "capacity", Target |-> "target"], t)
    BY <1>11 DEF KeysFit, Fields, LocalFields, OperandFields, OtherFields
  <2> QED BY <2>1, <2>2
<1>12. CASE t \in {"MakeNull", "MakeObject", "MakeSet", "ResetLocal"}
  <2>1. WriteKeys(t) = TargetOnly /\ ReadKeys(t) = WriteKeys(t)
    <3>1. CASE t = "MakeNull"
      BY <3>1 DEF WriteKeys, WriteKeysToCall, WriteKeysToLen, WriteKeysToNot, WriteKeysToWith,
           ReadKeys, ReadKeysToCall, ReadKeysToLen, ReadKeysToNot, ReadKeysToReturn, ReadKeysToWith,
           Bin, Insert, Source, SourceTarget, TargetOnly, ValueTarget
    <3>2. CASE t = "MakeObject"
      BY <3>2 DEF WriteKeys, WriteKeysToCall, WriteKeysToLen, WriteKeysToNot, WriteKeysToWith,
           ReadKeys, ReadKeysToCall, ReadKeysToLen, ReadKeysToNot, ReadKeysToReturn, ReadKeysToWith,
           Bin, Insert, Source, SourceTarget, TargetOnly, ValueTarget
    <3>3. CASE t = "MakeSet"
      BY <3>3 DEF WriteKeys, WriteKeysToCall, WriteKeysToLen, WriteKeysToNot, WriteKeysToWith,
           ReadKeys, ReadKeysToCall, ReadKeysToLen, ReadKeysToNot, ReadKeysToReturn, ReadKeysToWith,
           Bin, Insert, Source, SourceTarget, TargetOnly, ValueTarget
    <3>4. CASE t = "ResetLocal"
      BY <3>4 DEF WriteKeys, WriteKeysToCall, WriteKeysToLen, WriteKeysToNot, WriteKeysToWith,
           ReadKeys, ReadKeysToCall, ReadKeysToLen, ReadKeysToNot, ReadKeysToReturn, ReadKeysToWith,
           Bin, Insert, Source, SourceTarget, TargetOnly, ValueTarget
    <3> QED BY <1>12, <3>1, <3>2, <3>3, <3>4
  <2>2. KeysFit(TargetOnly, t)
    BY <1>12 DEF KeysFit, Fields, LocalFields, OperandFields, OtherFields, TargetOnly
  <2> QED BY <2>1, <2>2
<1>13. CASE t = "MakeNumberRef"
  <2>1. WriteKeys(t) = [Idx |-> "index", Target |-> "target"] /\ ReadKeys(t) = WriteKeys(t)
    BY <1>13 DEF WriteKeys, WriteKeysToCall, WriteKeysToLen, WriteKeysToNot, WriteKeysToWith,
           ReadKeys, ReadKeysToCall, ReadKeysToLen, ReadKeysToNot, ReadKeysToReturn, ReadKeysToWith,
           Bin, Insert, Source, SourceTarget, TargetOnly, ValueTarget
  <2>2. KeysFit([Idx |-> "index", Target |-> "target"], t)
    BY <1>13 DEF KeysFit, Fields, LocalFields, OperandFields, OtherFields
  <2> QED BY <2>1, <2>2
<1>14. CASE t = "Not"
  <2>1. WriteKeys(t) = [Block |-> "block"] /\ ReadKeys(t) = WriteKeys(t)
    BY <1>14 DEF WriteKeys, WriteKeysToCall, WriteKeysToLen, WriteKeysToNot, WriteKeysToWith,
           ReadKeys, ReadKeysToCall, ReadKeysToLen, ReadKeysToNot, ReadKeysToReturn, ReadKeysToWith,
           Bin, Insert, Source, SourceTarget, TargetOnly, ValueTarget
  <2>2. KeysFit([Block |-> "block"], t)
    BY <1>14 DEF KeysFit, Fields, LocalFields, OperandFields, OtherFields
  <2> QED BY <2>1, <2>2
<1>15. CASE t \in {"ObjectInsertOnce", "ObjectInsert"}
  <2>1. WriteKeys(t) = Insert /\ ReadKeys(t) = WriteKeys(t)
    <3>1. CASE t = "ObjectInsertOnce"
      BY <3>1 DEF WriteKeys, WriteKeysToCall, WriteKeysToLen, WriteKeysToNot, WriteKeysToWith,
           ReadKeys, ReadKeysToCall, ReadKeysToLen, ReadKeysToNot, ReadKeysToReturn, ReadKeysToWith,
           Bin, Insert, Source, SourceTarget, TargetOnly, ValueTarget
    <3>2. CASE t = "ObjectInsert"
      BY <3>2 DEF WriteKeys, WriteKeysToCall, WriteKeysToLen, WriteKeysToNot, WriteKeysToWith,
           ReadKeys, ReadKeysToCall, ReadKeysToLen, ReadKeysToNot, ReadKeysToReturn, ReadKeysToWith,
           Bin, Insert, Source, SourceTarget, TargetOnly, ValueTarget
    <3> QED BY <1>15, <3>1, <3>2
  <2>2. KeysFit(Insert, t)
    BY <1>15 DEF KeysFit, Fields, LocalFields, OperandFields, OtherFields, Insert
  <2> QED BY <2>1, <2>2
<1>16. CASE t = "ObjectMerge"
  <2>1. WriteKeys(t) = [Lhs |-> "a", Rhs |-> "b", Target |-> "target"] /\ ReadKeys(t) = WriteKeys(t)
    BY <1>16 DEF WriteKeys, WriteKeysToCall, WriteKeysToLen, WriteKeysToNot, WriteKeysToWith,
           ReadKeys, ReadKeysToCall, ReadKeysToLen, ReadKeysToNot, ReadKeysToReturn, ReadKeysToWith,
           Bin, Insert, Source, SourceTarget, TargetOnly, ValueTarget
  <2>2. KeysFit([Lhs |-> "a", Rhs |-> "b", Target |-> "target"], t)
    BY <1>16 DEF KeysFit, Fields, LocalFields, OperandFields, OtherFields
  <2> QED BY <2>1, <2>2
<1>17. CASE t = "ResultSetAdd"
  <2>1. WriteKeys(t) = [Val |-> "value"] /\ ReadKeys(t) = WriteKeys(t)
    BY <1>17 DEF WriteKeys, WriteKeysToCall, WriteKeysToLen, WriteKeysToNot, WriteKeysToWith,
           ReadKeys, ReadKeysToCall, ReadKeysToLen, ReadKeysToNot, ReadKeysToReturn, ReadKeysToWith,
           Bin, Insert, Source, SourceTarget, TargetOnly, ValueTarget
  <2>2. KeysFit([Val |-> "value"], t)
    BY <1>17 DEF KeysFit, Fields, LocalFields, OperandFields, OtherFields
  <2> QED BY <2>1, <2>2
<1>18. CASE t = "Scan"
  <2>1. WriteKeys(t) = [Src |-> "source", Key |-> "key", Val |-> "value", Block |-> "block"] /\ ReadKeys(t) = WriteKeys(t)
    BY <1>18 DEF WriteKeys, WriteKeysToCall, WriteKeysToLen, WriteKeysToNot, WriteKeysToWith,
           ReadKeys, ReadKeysToCall, ReadKeysToLen, ReadKeysToNot, ReadKeysToReturn, ReadKeysToWith,
           Bin, Insert, Source, SourceTarget, TargetOnly, ValueTarget
  <2>2. KeysFit([Src |-> "source", Key |-> "key", Val |-> "value", Block |-> "block"], t)
    BY <1>18 DEF KeysFit, Fields, LocalFields, OperandFields, OtherFields
  <2> QED BY <2>1, <2>2
<1>19. CASE t = "SetAdd"
  <2>1. WriteKeys(t) = [Val |-> "value", Set |-> "set"] /\ ReadKeys(t) = WriteKeys(t)
    BY <1>19 DEF WriteKeys, WriteKeysToCall, WriteKeysToLen, WriteKeysToNot, WriteKeysToWith,
           ReadKeys, ReadKeysToCall, ReadKeysToLen, ReadKeysToNot, ReadKeysToReturn, ReadKeysToWith,
           Bin, Insert, Source, SourceTarget, TargetOnly, ValueTarget
  <2>2. KeysFit([Val |-> "value", Set |-> "set"], t)
    BY <1>19 DEF KeysFit, Fields, LocalFields, OperandFields, OtherFields
  <2> QED BY <2>1, <2>2
<1>20. CASE t = "With"
  <2>1. WriteKeys(t) = [LocalIndex |-> "local", Path |-> "path", Val |-> "value", Block |-> "block"] /\ ReadKeys(t) = WriteKeys(t)
    BY <1>20 DEF WriteKeys, WriteKeysToCall, WriteKeysToLen, WriteKeysToNot, WriteKeysToWith,
           ReadKeys, ReadKeysToCall, ReadKeysToLen, ReadKeysToNot, ReadKeysToReturn, ReadKeysToWith,
           Bin, Insert, Source, SourceTarget, TargetOnly, ValueTarget
  <2>2. KeysFit([LocalIndex |-> "local", Path |-> "path", Val |-> "value", Block |-> "block"], t)
    BY <1>20 DEF KeysFit, Fields, LocalFields, OperandFields, OtherFields
  <2> QED BY <2>1, <2>2
<1> QED BY TypeCases, <1>1, <1>2, <1>3, <1>4, <1>5, <1>6, <1>7, <1>8, <1>9, <1>10, <1>11, <1>12, <1>13, <1>14, <1>15, <1>16, <1>17, <1>18, <1>19, <1>20

(***************************************************************************)
(* The lowering looks at the fields of a statement only.                   *)
(***************************************************************************)
RowOf(row, target, op0, op1) ==
  row.target = target /\ row.op0.field = op0 /\ row.op1.field = op1

LEMMA LoweringFields ==
    ASSUME NEW t \in StatementTypes
    PROVE  /\ Lowering(t).target \in Fields(t) \cup {""}
           /\ Lowering(t).op0.field \in Fields(t) \cup {""}
           /\ Lowering(t).op1.field \in Fields(t) \cup {""}
           /\ Lowering(t).op0.field = "" => Lowering(t).op0.how = "none"
           /\ Lowering(t).op1.field = "" => Lowering(t).op1.how = "none"
<1>1. CASE t = "ArrayAppend"
  <2>1. RowOf(Lowering(t), "Array", "Val", "")
    BY <1>1 DEF RowOf, Lowering, FirstHalf, LoweringToLen, LoweringLen, LoweringFromMake, Row, Op, Idx, Val, Unset
  <2>2. "Array" \in Fields(t) /\ "Val" \in Fields(t)
    BY <1>1 DEF Fields, LocalFields, OperandFields, OtherFields
  <2>3. Lowering(t).op1.how = "none"
    BY <1>1 DEF Lowering, FirstHalf, LoweringToLen, LoweringLen, LoweringFromMake, Row, Op, Idx, Val, Unset
  <2> QED BY <2>1, <2>2, <2>3 DEF RowOf
<1>2. CASE t = "SetAdd"
  <2>1. RowOf(Lowering(t), "Set", "Val", "")
    BY <1>2 DEF RowOf, Lowering, FirstHalf, LoweringToLen, LoweringLen, LoweringFromMake, Row, Op, Idx, Val, Unset
  <2>2. "Set" \in Fields(t) /\ "Val" \in Fields(t)
    BY <1>2 DEF Fields, LocalFields, OperandFields, OtherFields
  <2>3. Lowering(t).op1.how = "none"
    BY <1>2 DEF Lowering, FirstHalf, LoweringToLen, LoweringLen, LoweringFromMake, Row, Op, Idx, Val, Unset
  <2> QED BY <2>1, <2>2, <2>3 DEF RowOf
<1>3. CASE t \in {"AssignVarOnce", "AssignVar", "Len"}
  <2>1. RowOf(Lowering(t), "Target", "Src", "")
    BY <1>3 DEF RowOf, Lowering, FirstHalf, LoweringToLen, LoweringLen, LoweringFromMake, Row, Op, Idx, Val, Unset
  <2>2. "Target" \in Fields(t) /\ "Src" \in Fields(t)
    BY <1>3 DEF Fields, LocalFields, OperandFields, OtherFields
  <2>3. Lowering(t).op1.how = "none"
    BY <1>3 DEF Lowering, FirstHalf, LoweringToLen, LoweringLen, LoweringFromMake, Row, Op, Idx, Val, Unset
  <2> QED BY <2>1, <2>2, <2>3 DEF RowOf
<1>4. CASE t \in {"IsArray", "IsObject", "IsSet"}
  <2>1. RowOf(Lowering(t), "", "Src", "")
    BY <1>4 DEF RowOf, Lowering, FirstHalf, LoweringToLen, LoweringLen, LoweringFromMake, Row, Op, Idx, Val, Unset
  <2>2. "Src" \in Fields(t)
    BY <1>4 DEF Fields, LocalFields, OperandFields, OtherFields
  <2>3. Lowering(t).op1.how = "none"
    BY <1>4 DEF Lowering, FirstHalf, LoweringToLen, LoweringLen, LoweringFromMake, Row, Op, Idx, Val, Unset
  <2> QED BY <2>1, <2>2, <2>3 DEF RowOf
<1>5. CASE t \in {"AssignInt", "MakeNumberInt"}
  <2>1. RowOf(Lowering(t), "Target", "Val", "")
    BY <1>5 DEF RowOf, Lowering, FirstHalf, LoweringToLen, LoweringLen, LoweringFromMake, Row, Op, Idx, Val, Unset
  <2>2. "Target" \in Fields(t) /\ "Val" \in Fields(t)
    BY <1>5 DEF Fields, LocalFields, OperandFields, OtherFields
  <2>3. Lowering(t).op1.how = "none"
    BY <1>5 DEF Lowering, FirstHalf, LoweringToLen, LoweringLen, LoweringFromMake, Row, Op, Idx, Val, Unset
  <2> QED BY <2>1, <2>2, <2>3 DEF RowOf
<1>6. CASE t = "MakeArray"
  <2>1. RowOf(Lowering(t), "Target", "Capacity", "")
    BY <1>6 DEF RowOf, Lowering, FirstHalf, LoweringToLen, LoweringLen, LoweringFromMake, Row, Op, Idx, Val, Unset
  <2>2. "Target" \in Fields(t) /\ "Capacity" \in Fields(t)
    BY <1>6 DEF Fields, LocalFields, OperandFields, OtherFields
  <2>3. Lowering(t).op1.how = "none"
    BY <1>6 DEF Lowering, FirstHalf, LoweringToLen, LoweringLen, LoweringFromMake, Row, Op, Idx, Val, Unset
  <2> QED BY <2>1, <2>2, <2>3 DEF RowOf
<1>7. CASE t = "Break"
  <2>1. RowOf(Lowering(t), "", "Idx", "")
    BY <1>7 DEF RowOf, Lowering, FirstHalf, LoweringToLen, LoweringLen, LoweringFromMake, Row, Op, Idx, Val, Unset
  <2>2. "Idx" \in Fields(t)
    BY <1>7 DEF Fields, LocalFields, OperandFields, OtherFields
  <2>3. Lowering(t).op1.how = "none"
    BY <1>7 DEF Lowering, FirstHalf, LoweringToLen, LoweringLen, LoweringFromMake, Row, Op, Idx, Val, Unset
  <2> QED BY <2>1, <2>2, <2>3 DEF RowOf
<1>8. CASE t = "MakeNumberRef"
  <2>1. RowOf(Lowering(t), "Target", "Idx", "")
    BY <1>8 DEF RowOf, Lowering, FirstHalf, LoweringToLen, LoweringLen, LoweringFromMake, Row, Op, Idx, Val, Unset
  <2>2. "Target" \in Fields(t) /\ "Idx" \in Fields(t)
    BY <1>8 DEF Fields, LocalFields, OperandFields, OtherFields
  <2>3. Lowering(t).op1.how = "none"
    BY <1>8 DEF Lowering, FirstHalf, LoweringToLen, LoweringLen, LoweringFromMake, Row, Op, Idx, Val, Unset
  <2> QED BY <2>1, <2>2, <2>3 DEF RowOf
<1>9. CASE t \in {"Block", "Not"}
  <2>1. RowOf(Lowering(t), "", "", "")
    BY <1>9 DEF RowOf, Lowering, FirstHalf, LoweringToLen, LoweringLen, LoweringFromMake, Row, Op, Idx, Val, Unset
  <2>3. Lowering(t).op0.how = "none" /\ Lowering(t).op1.how = "none"
    BY <1>9 DEF Lowering, FirstHalf, LoweringToLen, LoweringLen, LoweringFromMake, Row, Op, Idx, Val, Unset
  <2> QED BY <2>1, <2>3 DEF RowOf
<1>10. CASE t \in {"Call", "CallDynamic"}
  <2>1. RowOf(Lowering(t), "Result", "", "")
    BY <1>10 DEF RowOf, Lowering, FirstHalf, LoweringToLen, LoweringLen, LoweringFromMake, Row, Op, Idx, Val, Unset
  <2>2. "Result" \in Fields(t)
    BY <1>10 DEF Fields, LocalFields, OperandFields, OtherFields
  <2>3. Lowering(t).op0.how = "none" /\ Lowering(t).op1.how = "none"
    BY <1>10 DEF Lowering, FirstHalf, LoweringToLen, LoweringLen, LoweringFromMake, Row, Op, Idx, Val, Unset
  <2> QED BY <2>1, <2>2, <2>3 DEF RowOf
<1>11. CASE t \in {"IsDefined", "IsUndefined", "ReturnLocal"}
  <2>1. RowOf(Lowering(t), "Src", "", "")
    BY <1>11 DEF RowOf, Lowering, FirstHalf, LoweringToLen, LoweringLen, LoweringFromMake, Row, Op, Idx, Val, Unset
  <2>2. "Src" \in Fields(t)
    BY <1>11 DEF Fields, LocalFields, OperandFields, OtherFields
  <2>3. Lowering(t).op0.how = "none" /\ Lowering(t).op1.how = "none"
    BY <1>11 DEF Lowering, FirstHalf, LoweringToLen, LoweringLen, LoweringFromMake, Row, Op, Idx, Val, Unset
  <2> QED BY <2>1, <2>2, <2>3 DEF RowOf
<1>12. CASE t \in {"MakeNull", "MakeObject", "MakeSet", "ResetLocal"}
  <2>1. RowOf(Lowering(t), "Target", "", "")
    BY <1>12 DEF RowOf, Lowering, FirstHalf, LoweringToLen, LoweringLen, LoweringFromMake, Row, Op, Idx, Val, Unset
  <2>2. "Target" \in Fields(t)
    BY <1>12 DEF Fields, LocalFields, OperandFields, OtherFields
  <2>3. Lowering(t).op0.how = "none" /\ Lowering(t).op1.how = "none"
    BY <1>12 DEF Lowering, FirstHalf, LoweringToLen, LoweringLen, LoweringFromMake, Row, Op, Idx, Val, Unset
  <2> QED BY <2>1, <2>2, <2>3 DEF RowOf
<1>13. CASE t = "ResultSetAdd"
  <2>1. RowOf(Lowering(t), "Val", "", "")
    BY <1>13 DEF RowOf, Lowering, FirstHalf, LoweringToLen, LoweringLen, LoweringFromMake, Row, Op, Idx, Val, Unset
  <2>2. "Val" \in Fields(t)
    BY <1>13 DEF Fields, LocalFields, OperandFields, OtherFields
  <2>3. Lowering(t).op0.how = "none" /\ Lowering(t).op1.how = "none"
    BY <1>13 DEF Lowering, FirstHalf, LoweringToLen, LoweringLen, LoweringFromMake, Row, Op, Idx, Val, Unset
  <2> QED BY <2>1, <2>2, <2>3 DEF RowOf
<1>14. CASE t = "Dot"
  <2>1. RowOf(Lowering(t), "Target", "Src", "Key")
    BY <1>14 DEF RowOf, Lowering, FirstHalf, LoweringToLen, LoweringLen, LoweringFromMake, Row, Op, Idx, Val, Unset
  <2>2. "Target" \in Fields(t) /\ "Src" \in Fields(t) /\ "Key" \in Fields(t)
    BY <1>14 DEF Fields, LocalFields, OperandFields, OtherFields
  <2> QED BY <2>1, <2>2 DEF RowOf
<1>15. CASE t \in {"Equal", "NotEqual"}
  <2>1. RowOf(Lowering(t), "", "Lhs", "Rhs")
    BY <1>15 DEF RowOf, Lowering, FirstHalf, LoweringToLen, LoweringLen, LoweringFromMake, Row, Op, Idx, Val, Unset
  <2>2. "Lhs" \in Fields(t) /\ "Rhs" \in Fields(t)
    BY <1>15 DEF Fields, LocalFields, OperandFields, OtherFields
  <2> QED BY <2>1, <2>2 DEF RowOf
<1>16. CASE t \in {"ObjectInsertOnce", "ObjectInsert"}
  <2>1. RowOf(Lowering(t), "Object", "Key", "Val")
    BY <1>16 DEF RowOf, Lowering, FirstHalf, LoweringToLen, LoweringLen, LoweringFromMake, Row, Op, Idx, Val, Unset
  <2>2. "Object" \in Fields(t) /\ "Key" \in Fields(t) /\ "Val" \in Fields(t)
    BY <1>16 DEF Fields, LocalFields, OperandFields, OtherFields
  <2> QED BY <2>1, <2>2 DEF RowOf
<1>17. CASE t = "ObjectMerge"
  <2>1. RowOf(Lowering(t), "Target", "Lhs", "Rhs")
    BY <1>17 DEF RowOf, Lowering, FirstHalf, LoweringToLen, LoweringLen, LoweringFromMake, Row, Op, Idx, Val, Unset
  <2>2. "Target" \in Fields(t) /\ "Lhs" \in Fields(t) /\ "Rhs" \in Fields(t)
    BY <1>17 DEF Fields, LocalFields, OperandFields, OtherFields
  <2> QED BY <2>1, <2>2 DEF RowOf
<1>18. CASE t = "Scan"
  <2>1. RowOf(Lowering(t), "Src", "Key", "Val")
    BY <1>18 DEF RowOf, Lowering, FirstHalf, LoweringToLen, LoweringLen, LoweringFromMake, Row, Op, Idx, Val, Unset
  <2>2. "Src" \in Fields(t) /\ "Key" \in Fields(t) /\ "Val" \in Fields(t)
    BY <1>18 DEF Fields, LocalFields, OperandFields, OtherFields
  <2> QED BY <2>1, <2>2 DEF RowOf
<1>19. CASE t = "With"
  <2>1. RowOf(Lowering(t), "LocalIndex", "Val", "")
    BY <1>19 DEF RowOf, Lowering, FirstHalf, LoweringToLen, LoweringLen, LoweringFromMake, Row, Op, Idx, Val, Unset
  <2>2. "LocalIndex" \in Fields(t) /\ "Val" \in Fields(t)
    BY <1>19 DEF Fields, LocalFields, OperandFields, OtherFields
  <2>3. Lowering(t).op1.how = "none"
    BY <1>19 DEF Lowering, FirstHalf, LoweringToLen, LoweringLen, LoweringFromMake, Row, Op, Idx, Val, Unset
  <2> QED BY <2>1, <2>2, <2>3 DEF RowOf
<1> QED BY TypeCases, <1>1, <1>2, <1>3, <1>4, <1>5, <1>6, <1>7, <1>8, <1>9, <1>10, <1>11, <1>12, <1>13, <1>14, <1>15, <1>16, <1>17, <1>18, <1>19

SameStatement(r, s) ==
  r.type = s.type /\ \A x \in Fields(s.type) : r.f[x] = s.f[x]

LEMMA SameLowered ==
    ASSUME NEW r, NEW s, s.type \in StatementTypes, SameStatement(r, s)
    PROVE  LowerStatement(r) = LowerStatement(s) /\ WrittenLocals(r) = WrittenLocals(s)
<1> DEFINE t == s.type
           row == Lowering(t)
<1>0. r.type = t /\ \A x \in Fields(t) : r.f[x] = s.f[x]
  BY DEF SameStatement
<1>1. /\ row.target \in Fields(t) \cup {""}
      /\ row.op0.field \in Fields(t) \cup {""} /\ row.op1.field \in Fields(t) \cup {""}
      /\ row.op0.field = "" => row.op0.how = "none"
      /\ row.op1.field = "" => row.op1.how = "none"
  BY LoweringFields
<1> HIDE DEF row
<1>2. row.target # "" => r.f[row.target] = s.f[row.target]
  BY <1>0, <1>1
<1>3. LowerOperand(r, row.op0) = LowerOperand(s, row.op0)
  BY <1>0, <1>1 DEF LowerOperand
<1>4. LowerOperand(r, row.op1) = LowerOperand(s, row.op1)
  BY <1>0, <1>1 DEF LowerOperand
<1>5. LowerExt(r) = LowerExt(s)
  <2>1. CASE t \in {"Call", "CallDynamic", "Block", "Not", "Scan", "With"}
    <3>1. /\ t = "Call" => {"Func", "Args"} \subseteq Fields(t)
          /\ t = "CallDynamic" => {"Path", "Args"} \subseteq Fields(t)
          /\ t = "Block" => "Blocks" \in Fields(t)
          /\ t \in {"Not", "Scan", "With"} => "Block" \in Fields(t)
          /\ t = "With" => "Path" \in Fields(t)
      BY DEF Fields, OtherFields
    <3>2. CASE t = "Call"
      BY <1>0, <3>1, <3>2 DEF LowerExt
    <3>3. CASE t = "CallDynamic"
      BY <1>0, <3>1, <3>3 DEF LowerExt
    <3>4. CASE t = "Block"
      BY <1>0, <3>1, <3>4 DEF LowerExt
    <3>5. CASE t \in {"Not", "Scan"}
      BY <1>0, <3>1, <3>5 DEF LowerExt
    <3>6. CASE t = "With"
      BY <1>0, <3>1, <3>6 DEF LowerExt
    <3> QED BY <2>1, <3>2, <3>3, <3>4, <3>5, <3>6
  <2>2. CASE t \notin {"Call", "CallDynamic", "Block", "Not", "Scan", "With"}
    BY <1>0, <2>2 DEF LowerExt
  <2> QED BY <2>1, <2>2
<1>6. t = "Scan" => r.f["Key"].n = s.f["Key"].n /\ r.f["Val"].n = s.f["Val"].n
  <2>1. t = "Scan" => "Key" \in Fields(t) /\ "Val" \in Fields(t)
    BY DEF Fields, LocalFields
  <2> QED BY <1>0, <2>1
<1> QED BY <1>0, <1>2, <1>3, <1>4, <1>5, <1>6 DEF LowerStatement, WrittenLocals, row

(***************************************************************************)
(* A statement written as JSON has every member the reader asks for, and   *)
(* comes back the same.                                                    *)
(***************************************************************************)
LEMMA JsonStatement ==
    ASSUME NEW s, s.type \in StatementTypes
    PROVE  LET j == StatementToJson(s) IN
           Complete(j) /\ SameStatement(StatementFromJson(j), s)
<1> DEFINE t == s.type
           keys == WriteKeys(t)
           j == StatementToJson(s)
           field(k) == CHOOSE x \in DOMAIN keys : keys[x] = k
<1>1. ReadKeys(t) = keys /\ DOMAIN keys = Fields(t)
      /\ \A x, y \in DOMAIN keys : keys[x] = keys[y] => x = y
  BY KeysAgree DEF KeysFit
<1>2. j.type = t /\ j.stmt = [k \in Members(keys) |-> s.f[field(k)]]
  BY DEF StatementToJson
<1> HIDE DEF keys, j
<1>3. DOMAIN j.stmt = Members(keys)
  BY <1>2
<1>4. ASSUME NEW x \in DOMAIN keys
      PROVE  keys[x] \in Members(keys) /\ j.stmt[keys[x]] = s.f[x]
  <2>1. keys[x] \in Members(keys)
    BY DEF Members
  <2>2. field(keys[x]) \in DOMAIN keys /\ keys[field(keys[x])] = keys[x]
    OBVIOUS
  <2>3. field(keys[x]) = x
    BY <1>1, <2>2
  <2> QED BY <1>2, <2>1, <2>3
<1>5. Complete(j)
  BY <1>1, <1>2, <1>3 DEF Complete
<1>6. StatementFromJson(j).type = t
      /\ StatementFromJson(j).f = [x \in DOMAIN keys |-> j.stmt[keys[x]]]
  BY <1>1, <1>2 DEF StatementFromJson
<1>7. SameStatement(StatementFromJson(j), s)
  BY <1>1, <1>4, <1>6 DEF SameStatement
<1> QED BY <1>5, <1>7 DEF j

(***************************************************************************)
(* Trees whose statements have the same fields are one program.            *)
(***************************************************************************)
SamePool(p, q) ==
  /\ Len(p) = Len(q)
  /\ \A b \in 1..Len(q) :
       /\ Len(p[b]) = Len(q[b])
       /\ \A i \in 1..Len(q[b]) : SameStatement(p[b][i], q[b][i])

SameTree(t, o) ==
  /\ t.strings = o.strings /\ t.plans = o.plans /\ t.funcs = o.funcs /\ t.query = o.query
  /\ SamePool(t.pool, o.pool)

LEMMA SameProgram ==
    ASSUME NEW t, NEW o, TreeWellFormed(o), SameTree(t, o)
    PROVE  FromNode(t) = FromNode(o)
<1> DEFINE p == t.pool
           q == o.pool
<1>1. /\ Len(p) = Len(q)
      /\ \A b \in 1..Len(q) : Len(p[b]) = Len(q[b])
      /\ \A b \in 1..Len(q) : \A i \in 1..Len(q[b]) :
           /\ LowerStatement(p[b][i]) = LowerStatement(q[b][i])
           /\ WrittenLocals(p[b][i]) = WrittenLocals(q[b][i])
  BY SameLowered DEF SameTree, SamePool, TreeWellFormed, StatementWellFormed
<1> HIDE DEF p, q
<1>2. [b \in 1..Len(p) |-> [i \in 1..Len(p[b]) |-> LowerStatement(p[b][i])]] =
      [b \in 1..Len(q) |-> [i \in 1..Len(q[b]) |-> LowerStatement(q[b][i])]]
  BY <1>1
<1>3. UNION {WrittenLocals(s) : s \in StatementsOf(p)} =
      UNION {WrittenLocals(s) : s \in StatementsOf(q)}
  <2>1. \A n : n \in UNION {WrittenLocals(s) : s \in StatementsOf(p)} <=>
                 \E b \in 1..Len(p) : \E i \in 1..Len(p[b]) : n \in WrittenLocals(p[b][i])
    BY DEF StatementsOf
  <2>2. \A n : n \in UNION {WrittenLocals(s) : s \in StatementsOf(q)} <=>
                 \E b \in 1..Len(q) : \E i \in 1..Len(q[b]) : n \in WrittenLocals(q[b][i])
    BY DEF StatementsOf
  <2>3. \A n : (\E b \in 1..Len(p) : \E i \in 1..Len(p[b]) : n \in WrittenLocals(p[b][i])) <=>
               (\E b \in 1..Len(q) : \E i \in 1..Len(q[b]) : n \in WrittenLocals(q[b][i]))
    BY <1>1
  <2> DEFINE P == UNION {WrittenLocals(s) : s \in StatementsOf(p)}
             Q == UNION {WrittenLocals(s) : s \in StatementsOf(q)}
  <2>4. \A n : n \in P <=> n \in Q
    BY <2>1, <2>2, <2>3
  <2> HIDE DEF P, Q
  <2>5. P = Q
    BY <2>4
  <2> QED BY <2>5 DEF P, Q
<1>4. LocalCount(p) = LocalCount(q)
  BY <1>3 DEF LocalCount
<1> QED BY <1>2, <1>4 DEF FromNode, SameTree, p, q

LEMMA JsonTree ==
    ASSUME NEW t, NEW o, TreeWellFormed(o), SameTree(t, o)
    PROVE  Loadable(PolicyToJson(t)) /\ SameTree(PolicyFromJson(PolicyToJson(t)), o)
<1> DEFINE j == PolicyToJson(t)
           r == PolicyFromJson(j)
<1>1. /\ Len(t.pool) = Len(o.pool) /\ Len(o.pool) \in Nat
      /\ \A b \in 1..Len(o.pool) :
           /\ Len(t.pool[b]) = Len(o.pool[b]) /\ Len(o.pool[b]) \in Nat
           /\ \A i \in 1..Len(o.pool[b]) : /\ SameStatement(t.pool[b][i], o.pool[b][i])
                                           /\ t.pool[b][i].type \in StatementTypes
  BY DEF SameTree, SamePool, TreeWellFormed, StatementWellFormed, SameStatement
<1>2. j.pool = [b \in 1..Len(t.pool) |-> [i \in 1..Len(t.pool[b]) |-> StatementToJson(t.pool[b][i])]]
  BY DEF PolicyToJson, PoolToJson
<1>3. /\ Len(j.pool) = Len(o.pool)
      /\ \A b \in 1..Len(o.pool) :
           /\ Len(j.pool[b]) = Len(o.pool[b])
           /\ \A i \in 1..Len(o.pool[b]) : j.pool[b][i] = StatementToJson(t.pool[b][i])
  BY <1>1, <1>2
<1>4. r.pool = [b \in 1..Len(j.pool) |-> [i \in 1..Len(j.pool[b]) |-> StatementFromJson(j.pool[b][i])]]
  BY DEF PolicyFromJson, PoolFromJson
<1>5. /\ Len(r.pool) = Len(o.pool)
      /\ \A b \in 1..Len(o.pool) :
           /\ Len(r.pool[b]) = Len(o.pool[b])
           /\ \A i \in 1..Len(o.pool[b]) :
                r.pool[b][i] = StatementFromJson(StatementToJson(t.pool[b][i]))
  BY <1>1, <1>3, <1>4
<1>6. /\ r.strings = t.strings /\ r.plans = t.plans /\ r.funcs = t.funcs
      /\ r.query = t.query
  <2>1. j.query = IF t.query = NoQuery THEN {} ELSE {t.query}
    BY DEF PolicyToJson
  <2>2. r.query = IF j.query = {} THEN NoQuery ELSE CHOOSE q \in j.query : TRUE
    BY DEF PolicyFromJson
  <2>3. r.query = t.query
    BY <2>1, <2>2
  <2> QED BY <2>3 DEF PolicyToJson, PolicyFromJson
<1> HIDE DEF j, r
<1>7. Loadable(j)
  BY <1>1, <1>3, JsonStatement DEF Loadable
<1>8. SamePool(r.pool, o.pool)
  <2>1. ASSUME NEW b \in 1..Len(o.pool), NEW i \in 1..Len(o.pool[b])
        PROVE  SameStatement(r.pool[b][i], o.pool[b][i])
    <3>1. SameStatement(r.pool[b][i], t.pool[b][i])
      BY <1>1, <1>5, JsonStatement
    <3>2. SameStatement(t.pool[b][i], o.pool[b][i])
      BY <1>1
    <3> QED BY <3>1, <3>2 DEF SameStatement
  <2> QED BY <1>5, <2>1 DEF SamePool
<1> QED BY <1>6, <1>7, <1>8 DEF SameTree, j, r

-----------------------------------------------------------------------------
(***************************************************************************)
(* When all names are different, the index the lowering gives a name, by   *)
(* the size of its map, is the place of its one item, and so is the index  *)
(* the binary reader gives it.                                             *)
(***************************************************************************)
LEMMA DistinctNames ==
    ASSUME NEW items, Len(items) \in Nat, Distinct(items),
           NEW i \in 1..Len(items), NEW j \in 1..Len(items), items[i].name = items[j].name
    PROVE  i = j
<1> DEFINE S == 1..Len(items)
           T == Names(items)
           f == [k \in S |-> items[k].name]
<1>1. f \in Surjection(S, T)
  BY DEF Surjection, Names
<1>2. IsFiniteSet(S) /\ Cardinality(S) = Len(items)
  <2> DEFINE n == Len(items)
  <2>1. n \in Nat
    OBVIOUS
  <2> HIDE DEF n
  <2>2. IsFiniteSet(1..n) /\ Cardinality(1..n) = n
    <3>1. 1 \in Int /\ n \in Int
      BY <2>1
    <3>2. IsFiniteSet(1..n) /\ Cardinality(1..n) = IF 1 > n THEN 0 ELSE n - 1 + 1
      BY <3>1, FS_Interval, Zenon
    <3> QED BY <2>1, <3>2
  <2> QED BY <2>2 DEF n
<1>3. Cardinality(T) = Cardinality(S)
  BY <1>2 DEF Distinct
<1>4. f \in Injection(S, T)
  BY <1>1, <1>2, <1>3, FS_Surjection
<1> QED BY <1>4 DEF Injection, IsInjective

LEMMA NamesBefore ==
    ASSUME NEW items, items \in Seq(PlanRecords) \/ items \in Seq(FunctionRecords), Distinct(items),
           NEW n \in 0..Len(items)
    PROVE  Cardinality(Names(SubSeq(items, 1, n))) = n
<1> DEFINE S == 1..n
           before == SubSeq(items, 1, n)
           T == Names(before)
           f == [k \in S |-> items[k].name]
<1>0. Len(items) \in Nat
  OBVIOUS
<1>1. Len(before) = n /\ \A k \in S : before[k] = items[k]
  <2>1. CASE items \in Seq(PlanRecords)
    BY <2>1
  <2>2. CASE items \in Seq(FunctionRecords)
    BY <2>2
  <2> QED BY <2>1, <2>2
<1> HIDE DEF before
<1>2. T = {items[k].name : k \in S}
  BY <1>1 DEF Names
<1>3. f \in Injection(S, T) /\ f \in Surjection(S, T)
  <2>1. f \in [S -> T] /\ \A y \in T : \E x \in S : f[x] = y
    BY <1>2
  <2>2. \A a, b \in S : f[a] = f[b] => a = b
    BY <1>0, DistinctNames
  <2> QED BY <2>1, <2>2 DEF Injection, Surjection, IsInjective
<1>4. IsFiniteSet(S) /\ Cardinality(S) = n
  BY FS_Interval
<1> QED BY <1>3, <1>4, FS_Surjection DEF before

LEMMA OneIndex ==
    ASSUME NEW items, items \in Seq(PlanRecords) \/ items \in Seq(FunctionRecords), Distinct(items)
    PROVE  /\ IndexBySize(items) = IndexByPosition(items)
           /\ \A n \in Names(items) : Named(items, IndexBySize(items)[n], n)
<1>0. Len(items) \in Nat
  OBVIOUS
<1>1. ASSUME NEW n \in Names(items)
      PROVE  /\ IndexBySize(items)[n] = IndexByPosition(items)[n]
             /\ Named(items, IndexBySize(items)[n], n)
  <2>1. PICK i \in 1..Len(items) : items[i].name = n
    BY DEF Names
  <2> DEFINE last == CHOOSE k \in 1..Len(items) :
                       /\ items[k].name = n
                       /\ \A j \in (k + 1)..Len(items) : items[j].name # n
             at == CHOOSE k \in 0..(Len(items) - 1) :
                     /\ items[k + 1].name = n
                     /\ \A j \in (k + 1)..(Len(items) - 1) : items[j + 1].name # n
  <2>2. \A j \in (i + 1)..Len(items) : items[j].name # n
    BY <1>0, <2>1, DistinctNames
  <2>3. last \in 1..Len(items) /\ items[last].name = n
    BY <2>1, <2>2
  <2>4. last = i
    BY <1>0, <2>1, <2>3, DistinctNames
  <2>5. i - 1 \in 0..(Len(items) - 1) /\ items[(i - 1) + 1].name = n
        /\ \A j \in ((i - 1) + 1)..(Len(items) - 1) : items[j + 1].name # n
    BY <1>0, <2>1, <2>2
  <2>6. at \in 0..(Len(items) - 1) /\ items[at + 1].name = n
    BY <2>5
  <2>7. at = i - 1
    BY <1>0, <2>1, <2>6, DistinctNames
  <2>8. IndexBySize(items)[n] = Cardinality(Names(SubSeq(items, 1, last - 1)))
    BY DEF IndexBySize
  <2>9. IndexByPosition(items)[n] = at
    BY DEF IndexByPosition
  <2> HIDE DEF last, at
  <2>10. IndexBySize(items)[n] = i - 1
    BY <1>0, <2>1, <2>4, <2>8, NamesBefore
  <2> QED BY <2>5, <2>7, <2>9, <2>10 DEF Named
<1>2. /\ IndexBySize(items) = [n \in Names(items) |-> IndexBySize(items)[n]]
      /\ IndexByPosition(items) = [n \in Names(items) |-> IndexByPosition(items)[n]]
  BY DEF IndexBySize, IndexByPosition
<1> HIDE DEF Named
<1> QED BY <1>1, <1>2

(* The index the lowering gives is a number of names, for any items.       *)
LEMMA LeastNumber ==
    ASSUME NEW T \in SUBSET Nat, T # {}
    PROVE  \E x \in T : \A y \in T : x <= y
<1> DEFINE R == OpToRel(<, Nat)
<1>1. IsWellFoundedOn(R, Nat)
  BY NatLessThanWellFounded
<1>2. \A x, y \in Nat : <<y, x>> \in R <=> y < x
  BY DEF OpToRel
<1> HIDE DEF R
<1>3. \E x \in T : \A y \in T : ~(<<y, x>> \in R)
  BY <1>1, WFMin
<1>4. PICK x \in T : \A y \in T : ~(<<y, x>> \in R)
  BY <1>3
<1>5. ASSUME NEW y \in T PROVE x <= y
  <2>1. x \in Nat /\ y \in Nat
    OBVIOUS
  <2>2. ~(y < x)
    BY <1>2, <1>4, <2>1
  <2> QED BY <2>1, <2>2
<1> QED BY <1>5

LEMMA IndexIsNumber ==
    ASSUME NEW items \in Seq(PlanRecords), NEW n \in Names(items)
    PROVE  IndexBySize(items)[n] \in Nat
<1> DEFINE len == Len(items)
           last == CHOOSE i \in 1..len :
                     /\ items[i].name = n
                     /\ \A j \in (i + 1)..len : items[j].name # n
           T == {m \in 0..(len - 1) : items[len - m].name = n}
<1>0. len \in Nat
  OBVIOUS
<1>1. T # {} /\ T \in SUBSET Nat
  <2>1. PICK i \in 1..len : items[i].name = n
    BY DEF Names
  <2> HIDE DEF len
  <2>2. len - i \in 0..(len - 1) /\ len - (len - i) = i
    BY <1>0, <2>1
  <2>3. len - i \in T
    BY <2>1, <2>2
  <2>4. T \subseteq 0..(len - 1) /\ 0..(len - 1) \subseteq Nat
    BY <1>0
  <2> HIDE DEF T
  <2> QED BY <2>3, <2>4
<1>2. PICK m \in T : \A y \in T : m <= y
  BY <1>1, LeastNumber
<1>3. len - m \in 1..len /\ items[len - m].name = n
      /\ \A j \in ((len - m) + 1)..len : items[j].name # n
  <2>1. len - m \in 1..len /\ items[len - m].name = n
    BY <1>0, <1>2
  <2>2. ASSUME NEW j \in ((len - m) + 1)..len, items[j].name = n PROVE FALSE
    <3> HIDE DEF len
    <3>1. len - j \in 0..(len - 1) /\ len - (len - j) = j /\ len - j < m
      BY <1>0, <1>2, <2>2
    <3>2. len - j \in T
      BY <2>2, <3>1
    <3>3. m <= len - j /\ m \in Nat
      <4> HIDE DEF T
      <4> QED BY <1>1, <1>2, <3>2
    <3>4. len - j \in Int
      BY <1>0, <2>2
    <3> QED BY <3>1, <3>3, <3>4
  <2> QED BY <2>1, <2>2
<1>4. last \in 1..len
  BY <1>3
<1> DEFINE before == SubSeq(items, 1, last - 1)
           S == 1..(last - 1)
           f == [k \in S |-> items[k].name]
<1>5. IndexBySize(items)[n] = Cardinality(Names(before))
  BY DEF IndexBySize
<1> HIDE DEF last
<1>6. Len(before) = last - 1 /\ \A k \in S : before[k] = items[k]
  BY <1>4
<1> HIDE DEF before
<1>7. Names(before) = {items[k].name : k \in S}
  BY <1>6 DEF Names
<1>8. f \in Surjection(S, Names(before))
  BY <1>7 DEF Surjection
<1>9. IsFiniteSet(S)
  BY <1>4, FS_Interval
<1> QED BY <1>5, <1>8, <1>9, FS_Surjection, FS_CardinalityType

(***************************************************************************)
(* The compiled form b of the program o, whatever it was saved as before.  *)
(***************************************************************************)
CompiledOf(b, o) ==
  /\ b.strings = o.strings /\ b.locals = o.locals
  /\ b.plans = o.plans /\ b.funcs = o.funcs /\ b.query = o.query
  /\ b.plan_index \in {IndexBySize(o.plans), IndexByPosition(o.plans)}
  /\ b.func_index \in {IndexBySize(o.funcs), IndexByPosition(o.funcs)}
  /\ b.query_plan \in Nat \cup {NoPlan}
  /\ Fits(o) => b.query_plan = o.query_plan
  /\ Len(b.pool) = Len(o.pool) /\ Len(o.pool) \in Nat
  /\ \A k \in 1..Len(o.pool) :
       /\ Len(b.pool[k]) = Len(o.pool[k]) /\ Len(o.pool[k]) \in Nat
       /\ \A i \in 1..Len(o.pool[k]) :
            Shaped(b.pool[k][i]) /\ Meaning(b.pool[k][i]) = Meaning(o.pool[k][i])

LEMMA LoweredProgram ==
    ASSUME NEW tree, TreeWellFormed(tree)
    PROVE  CompiledOf(FromNode(tree), FromNode(tree))
<1> DEFINE made == FromNode(tree).pool
<1>1. made = [b \in 1..Len(tree.pool) |->
                [i \in 1..Len(tree.pool[b]) |-> LowerStatement(tree.pool[b][i])]]
  BY DEF FromNode
<1>2. /\ Len(tree.pool) \in Nat
      /\ \A b \in 1..Len(tree.pool) : /\ Len(tree.pool[b]) \in Nat
                                      /\ \A i \in 1..Len(tree.pool[b]) :
                                           Shaped(LowerStatement(tree.pool[b][i]))
  BY Lowered DEF TreeWellFormed
<1> HIDE DEF made
<1>3. /\ Len(made) = Len(tree.pool)
      /\ \A b \in 1..Len(tree.pool) :
           /\ Len(made[b]) = Len(tree.pool[b])
           /\ \A i \in 1..Len(tree.pool[b]) : made[b][i] = LowerStatement(tree.pool[b][i])
  BY <1>1, <1>2
<1>4. /\ Len(made) \in Nat
      /\ \A b \in 1..Len(made) : /\ Len(made[b]) \in Nat
                                 /\ \A i \in 1..Len(made[b]) : Shaped(made[b][i])
  BY <1>2, <1>3
<1>5. /\ FromNode(tree).plan_index = IndexBySize(FromNode(tree).plans)
      /\ FromNode(tree).func_index = IndexBySize(FromNode(tree).funcs)
  BY DEF FromNode
<1>6. FromNode(tree).query_plan \in Nat \cup {NoPlan}
  <2>1. FromNode(tree).query_plan =
          IF tree.query \in Names(tree.plans) THEN IndexBySize(tree.plans)[tree.query] ELSE NoPlan
    BY DEF FromNode, IndexBySize
  <2> QED BY <2>1, IndexIsNumber DEF TreeWellFormed
<1> QED BY <1>4, <1>5, <1>6 DEF CompiledOf, made

(***************************************************************************)
(* r is what the reader makes of the image of b: the tables as they were,  *)
(* the indices made anew, and each statement written and read.             *)
(***************************************************************************)
ReadAs(r, b) ==
    /\ r.strings = b.strings /\ r.locals = b.locals /\ r.plans = b.plans
    /\ r.funcs = b.funcs /\ r.query = b.query
    /\ r.plan_index = IndexByPosition(b.plans)
    /\ r.func_index = IndexByPosition(b.funcs)
    /\ Len(r.pool) = Len(b.pool)
    /\ \A k \in 1..Len(b.pool) :
         /\ Len(r.pool[k]) = Len(b.pool[k])
         /\ \A i \in 1..Len(b.pool[k]) :
              r.pool[k][i] = ReadStatement(WriteStatement(b.pool[k][i]))

(***************************************************************************)
(* Such a form is written to an image and read back as another one; and    *)
(* when the program fits, the reader understands the image.                *)
(***************************************************************************)
LEMMA ImageRead ==
    ASSUME NEW b, NEW o, NEW payload, CompiledOf(b, o), o.funcs \in Seq(FunctionRecords),
           NEW r, r = ReadBundle(WriteBundle(b, payload))
    PROVE  ReadAs(r, b)
<1> DEFINE image == WriteBundle(b, payload)
           written == WritePool(b.pool)
<1>1. /\ Len(b.pool) \in Nat /\ \A k \in 1..Len(b.pool) : Len(b.pool[k]) \in Nat
      /\ b.funcs \in Seq(FunctionRecords)
  BY DEF CompiledOf
<1>2. written = [k \in 1..Len(b.pool) |->
                   [i \in 1..Len(b.pool[k]) |-> WriteStatement(b.pool[k][i])]]
  BY DEF WritePool
<1> HIDE DEF written
<1>3. /\ Len(written) = Len(b.pool)
      /\ \A k \in 1..Len(b.pool) :
           /\ Len(written[k]) = Len(b.pool[k])
           /\ \A i \in 1..Len(b.pool[k]) : written[k][i] = WriteStatement(b.pool[k][i])
  BY <1>1, <1>2
<1>4. image.pool = written
  BY DEF WriteBundle, written
<1>5. image.funcs = [i \in 1..Len(b.funcs) |-> WriteFunction(b.funcs[i])]
  BY DEF WriteBundle
<1>6. /\ image.strings = b.strings /\ image.locals = b.locals /\ image.plans = b.plans
      /\ image.query = b.query
  BY DEF WriteBundle
<1>0. r = ReadBundle(image)
  OBVIOUS
<1> HIDE DEF image
<1>7. r.pool = [k \in 1..Len(written) |->
                  [i \in 1..Len(written[k]) |-> ReadStatement(written[k][i])]]
  BY <1>0, <1>4 DEF ReadBundle, ReadPool
<1>8. /\ Len(r.pool) = Len(b.pool)
      /\ \A k \in 1..Len(b.pool) :
           /\ Len(r.pool[k]) = Len(b.pool[k])
           /\ \A i \in 1..Len(b.pool[k]) :
                r.pool[k][i] = ReadStatement(WriteStatement(b.pool[k][i]))
  <2> QED BY <1>1, <1>3, <1>7
<1>9. [i \in 1..Len(image.funcs) |-> image.funcs[i].func] = b.funcs
  <2>1. \A f : WriteFunction(f).func = f
    BY DEF WriteFunction
  <2>2. Len(b.funcs) \in Nat
    BY <1>1
  <2>3. Len(image.funcs) = Len(b.funcs)
    BY <1>5, <2>2
  <2>4. \A i \in 1..Len(b.funcs) : image.funcs[i].func = b.funcs[i]
    BY <1>5, <2>1
  <2>5. [i \in 1..Len(image.funcs) |-> image.funcs[i].func] = [i \in 1..Len(b.funcs) |-> b.funcs[i]]
    BY <2>3, <2>4
  <2>6. b.funcs = [i \in 1..Len(b.funcs) |-> b.funcs[i]]
    BY <1>1
  <2> QED BY <2>5, <2>6
<1>10. /\ r.funcs = b.funcs /\ r.func_index = IndexByPosition(b.funcs)
       /\ r.plan_index = IndexByPosition(b.plans)
       /\ r.strings = b.strings /\ r.locals = b.locals /\ r.plans = b.plans
       /\ r.query = b.query
  <2> DEFINE q == ReadBundle(image)
  <2>1. /\ q.funcs = b.funcs /\ q.func_index = IndexByPosition(b.funcs)
        /\ q.plan_index = IndexByPosition(b.plans)
        /\ q.strings = b.strings /\ q.locals = b.locals /\ q.plans = b.plans
        /\ q.query = b.query
    BY <1>6, <1>9 DEF ReadBundle
  <2> HIDE DEF q
  <2>2. r = q
    BY <1>0 DEF q
  <2> QED BY <2>1, <2>2
<1> QED BY <1>8, <1>10 DEF ReadAs

LEMMA ByteKept == \A n \in Nat : n <= ByteMax => n % (ByteMax + 1) = n
BY ByteAssumption

LEMMA ByteLeast ==
    \A n \in Nat : n % (ByteMax + 1) \in 0..ByteMax /\ n % (ByteMax + 1) <= n
BY ByteAssumption

LEMMA FitsAlike ==
    ASSUME NEW b, NEW o, CompiledOf(b, o)
    PROVE  \A k \in 1..Len(b.pool) : \A i \in 1..Len(b.pool[k]) :
             /\ b.pool[k][i].ext = o.pool[k][i].ext
             /\ Fits(o) => StatementFits(b.pool[k][i])
<1> SUFFICES ASSUME NEW k \in 1..Len(b.pool), NEW i \in 1..Len(b.pool[k])
             PROVE  /\ b.pool[k][i].ext = o.pool[k][i].ext
                    /\ Fits(o) => StatementFits(b.pool[k][i])
  OBVIOUS
<1>1. k \in 1..Len(o.pool) /\ i \in 1..Len(o.pool[k])
      /\ Meaning(b.pool[k][i]) = Meaning(o.pool[k][i])
  BY DEF CompiledOf
<1>2. b.pool[k][i].ext = o.pool[k][i].ext
  BY <1>1 DEF Meaning
<1>3. Fits(o) => StatementFits(o.pool[k][i])
  BY <1>1 DEF Fits
<1> QED BY <1>2, <1>3 DEF StatementFits

LEMMA StatementUnderstood ==
    ASSUME NEW st, Shaped(st), StatementFits(st)
    PROVE  Understood(WriteStatement(st))
<1> DEFINE t == st.type
           row == WriteOrder(t)
           image == WriteStatement(st)
<1>1. ReadOrder(t) = row /\ RowFits(row, t)
  BY RowsAgree DEF Shaped
<1>2. /\ image.type = t /\ Len(row) \in Nat
      /\ image.items = [i \in 1..Len(row) |-> WriteItem(st, row[i])]
  BY <1>1 DEF WriteStatement, RowFits
<1> HIDE DEF row, image
<1>3. Len(image.items) = Len(row) /\ \A i \in 1..Len(row) : image.items[i] = WriteItem(st, row[i])
  BY <1>2
<1>4. ASSUME NEW i \in 1..Len(row)
      PROVE  /\ row[i].enc = image.items[i].enc
             /\ IsList(row[i].enc) => image.items[i].count = Len(image.items[i].val)
  <2> DEFINE slot == row[i].slot
             enc == Encoding(t, slot)
  <2>1. row[i] = E(enc, slot) /\ slot \in Slots
    BY <1>1 DEF RowFits
  <2>2. row[i].enc = enc /\ image.items[i] = WriteItem(st, row[i])
    BY <1>3, <2>1 DEF E
  <2>3. image.items[i].enc = row[i].enc
    BY <2>2 DEF WriteItem
  <2>4. ASSUME IsList(enc)
        PROVE  image.items[i].count = Len(image.items[i].val)
    <3>1. \/ slot = "path" /\ t \in {"CallDynamic", "With"}
          \/ slot = "ops" /\ t \in {"Call", "CallDynamic"}
      BY <2>4 DEF IsList, Encoding
    <3>2. Len(st.ext[slot]) \in 0..ByteMax
      <4>1. /\ t = "CallDynamic" => st.ext.path \in Seq(Operands)
            /\ t = "With" => st.ext.path \in Seq(Nat)
            /\ t \in {"Call", "CallDynamic"} => st.ext.ops \in Seq(Operands)
        BY DEF Shaped, ExtShaped
      <4>2. /\ t \in {"CallDynamic", "With"} => Len(st.ext.path) \in Nat
            /\ t \in {"Call", "CallDynamic"} => Len(st.ext.ops) \in Nat
        BY <4>1
      <4>3. ByteMax \in Nat
        BY ByteAssumption
      <4>4. Len(st.ext.ops) <= ByteMax /\ Len(st.ext.path) <= ByteMax
        BY DEF StatementFits
      <4>5. /\ t \in {"CallDynamic", "With"} => Len(st.ext.path) \in 0..ByteMax
            /\ t \in {"Call", "CallDynamic"} => Len(st.ext.ops) \in 0..ByteMax
        BY <4>2, <4>3, <4>4
      <4>6. CASE slot = "path" /\ t \in {"CallDynamic", "With"}
        BY <4>5, <4>6
      <4>7. CASE slot = "ops" /\ t \in {"Call", "CallDynamic"}
        BY <4>5, <4>7
      <4> QED BY <3>1, <4>6, <4>7
    <3>3. SlotValue(st, slot) = st.ext[slot]
      BY <3>1 DEF SlotValue
    <3>4. /\ WriteItem(st, row[i]).val = st.ext[slot]
          /\ WriteItem(st, row[i]).count = Len(st.ext[slot]) % (ByteMax + 1)
      BY <2>2, <2>4, <3>3 DEF WriteItem, IsList
    <3>5. Len(st.ext[slot]) % (ByteMax + 1) = Len(st.ext[slot])
      <4>1. PICK n \in 0..ByteMax : Len(st.ext[slot]) = n
        BY <3>2
      <4>2. n % (ByteMax + 1) = n
        BY ByteKept, ByteAssumption
      <4> QED BY <4>1, <4>2
    <3> QED BY <2>2, <3>4, <3>5
  <2> QED BY <2>2, <2>3, <2>4
<1>5. ReadOrder(image.type) = row
  BY <1>1, <1>2
<1> QED BY <1>3, <1>4, <1>5 DEF Understood, image

LEMMA ImageReadable ==
    ASSUME NEW b, NEW o, NEW payload, CompiledOf(b, o), o.funcs \in Seq(FunctionRecords), Fits(o)
    PROVE  Readable(WriteBundle(b, payload))
<1> DEFINE image == WriteBundle(b, payload)
<1>1. /\ Len(b.pool) \in Nat /\ \A k \in 1..Len(b.pool) : Len(b.pool[k]) \in Nat
      /\ b.funcs = o.funcs
      /\ \A k \in 1..Len(b.pool) : \A i \in 1..Len(b.pool[k]) : Shaped(b.pool[k][i])
  BY DEF CompiledOf
<1>2. ASSUME NEW i \in 1..Len(image.funcs)
      PROVE  /\ image.funcs[i].parts = Len(image.funcs[i].func.path)
             /\ image.funcs[i].params = Len(image.funcs[i].func.params)
  <2>1. image.funcs = [k \in 1..Len(o.funcs) |-> WriteFunction(o.funcs[k])]
    BY <1>1 DEF WriteBundle
  <2> HIDE DEF image
  <2>2. i \in 1..Len(o.funcs) /\ image.funcs[i] = WriteFunction(o.funcs[i])
    BY <2>1
  <2>3. Len(o.funcs[i].params) \in Nat /\ Len(o.funcs[i].path) \in Nat
    <3>1. o.funcs[i] \in FunctionRecords
      BY <2>2
    <3>2. o.funcs[i].params \in Seq(Nat) /\ o.funcs[i].path \in Seq(STRING)
      BY <3>1 DEF FunctionRecords
    <3> QED BY <3>2
  <2>4. Len(o.funcs[i].params) <= ByteMax /\ Len(o.funcs[i].path) <= ByteMax
    BY <2>2 DEF Fits
  <2>5. /\ Len(o.funcs[i].params) % (ByteMax + 1) = Len(o.funcs[i].params)
        /\ Len(o.funcs[i].path) % (ByteMax + 1) = Len(o.funcs[i].path)
    BY <2>3, <2>4, ByteKept
  <2> QED BY <2>2, <2>5 DEF WriteFunction
<1>3. image.pool = [k \in 1..Len(b.pool) |->
                      [i \in 1..Len(b.pool[k]) |-> WriteStatement(b.pool[k][i])]]
  BY DEF WriteBundle, WritePool
<1> HIDE DEF image
<1>4. ASSUME NEW k \in 1..Len(image.pool), NEW i \in 1..Len(image.pool[k])
      PROVE  Understood(image.pool[k][i])
  <2>1. k \in 1..Len(b.pool) /\ i \in 1..Len(b.pool[k])
        /\ image.pool[k][i] = WriteStatement(b.pool[k][i])
    BY <1>1, <1>3
  <2> QED BY <1>1, <2>1, FitsAlike, StatementUnderstood
<1> QED BY <1>2, <1>4 DEF Readable, image

LEMMA ImageKept ==
    ASSUME NEW b, NEW o, NEW payload, CompiledOf(b, o), o.funcs \in Seq(FunctionRecords)
    PROVE  CompiledOf(ReadBundle(WriteBundle(b, payload)), o)
<1> DEFINE r == ReadBundle(WriteBundle(b, payload))
<1>1. /\ r.strings = b.strings /\ r.locals = b.locals /\ r.plans = b.plans
      /\ r.funcs = b.funcs /\ r.query = b.query
      /\ r.plan_index = IndexByPosition(b.plans)
      /\ r.func_index = IndexByPosition(b.funcs)
      /\ Len(r.pool) = Len(b.pool)
      /\ \A k \in 1..Len(b.pool) :
           /\ Len(r.pool[k]) = Len(b.pool[k])
           /\ \A i \in 1..Len(b.pool[k]) :
                r.pool[k][i] = ReadStatement(WriteStatement(b.pool[k][i]))
  <2>1. r = ReadBundle(WriteBundle(b, payload))
    OBVIOUS
  <2> HIDE DEF r
  <2>2. ReadAs(r, b)
    BY <2>1, ImageRead
  <2> QED BY ONLY <2>2 DEF ReadAs
<1>2. /\ r.query_plan \in Nat \cup {NoPlan}
      /\ Fits(o) => r.query_plan = o.query_plan
  <2> DEFINE q == b.query_plan
             image == WriteBundle(b, payload)
  <2>1. q \in Nat \cup {NoPlan} /\ (Fits(o) => q = o.query_plan /\ q <= SByteMax)
    BY DEF CompiledOf, Fits
  <2>2. image.query_plan = IF q = NoPlan THEN -1 ELSE SignedByte(q)
    BY DEF WriteBundle
  <2>3. r.query_plan = IF image.query_plan >= 0 THEN image.query_plan ELSE NoPlan
    BY DEF ReadBundle
  <2> HIDE DEF q, image, r
  <2>4. ASSUME q \in Nat
        PROVE  SignedByte(q) \in Int /\ (q <= SByteMax => SignedByte(q) = q)
    <3> DEFINE m == q % (ByteMax + 1)
    <3>1. m \in 0..ByteMax /\ (q <= SByteMax => m = q)
      BY <2>4, ByteKept, ByteLeast, ByteAssumption
    <3>2. SignedByte(q) = IF m > SByteMax THEN m - (ByteMax + 1) ELSE m
      BY DEF SignedByte
    <3> HIDE DEF m
    <3> QED BY <2>4, <3>1, <3>2, ByteAssumption
  <2>5. /\ r.query_plan \in Nat \cup {NoPlan}
        /\ Fits(o) => r.query_plan = q
    BY <2>1, <2>2, <2>3, <2>4 DEF NoPlan
  <2> QED BY <2>1, <2>5 DEF q, r
<1> HIDE DEF r
<1>3. ASSUME NEW k \in 1..Len(o.pool), NEW i \in 1..Len(o.pool[k])
      PROVE  Shaped(r.pool[k][i]) /\ Meaning(r.pool[k][i]) = Meaning(o.pool[k][i])
  <2>1. /\ k \in 1..Len(b.pool) /\ i \in 1..Len(b.pool[k])
        /\ Shaped(b.pool[k][i]) /\ Meaning(b.pool[k][i]) = Meaning(o.pool[k][i])
    BY DEF CompiledOf
  <2>2. r.pool[k][i] = ReadStatement(WriteStatement(b.pool[k][i]))
    BY <1>1, <2>1
  <2> QED BY <2>1, <2>2, ReadBack
<1> QED BY <1>1, <1>2, <1>3 DEF CompiledOf, r

(***************************************************************************)
(* A form of a program is within the limits of the reader when the program *)
(* is: the lists of blocks are kept, and with them how deep blocks lie.    *)
(***************************************************************************)
LEMMA LimitsAlike ==
    ASSUME NEW b, NEW o, CompiledOf(b, o)
    PROVE  WithinLimits(b) <=> WithinLimits(o)
<1>1. /\ b.strings = o.strings /\ b.plans = o.plans /\ b.funcs = o.funcs
      /\ Len(b.pool) = Len(o.pool)
      /\ \A k \in 1..Len(o.pool) : Len(b.pool[k]) = Len(o.pool[k])
  BY DEF CompiledOf
<1>2. ASSUME NEW k \in 1..Len(o.pool), NEW i \in 1..Len(o.pool[k])
      PROVE  b.pool[k][i].ext = o.pool[k][i].ext
  <2>1. k \in 1..Len(b.pool) /\ i \in 1..Len(b.pool[k])
    BY <1>1
  <2> QED BY <2>1, FitsAlike
<1>3. BlocksOf(b) = BlocksOf(o)
  BY <1>1 DEF BlocksOf
<1>4. BlocksIn(b.pool) = BlocksIn(o.pool)
  BY <1>1, <1>2 DEF BlocksIn
<1> DEFINE Pool(c) == \A k \in 1..Len(c.pool) :
                        /\ Len(c.pool[k]) <= MaxElements
                        /\ \A i \in 1..Len(c.pool[k]) :
                             Len(c.pool[k][i].ext.blocks) <= MaxElements
<1>5. Pool(b) <=> Pool(o)
  <2>1. ASSUME NEW k \in 1..Len(o.pool)
        PROVE  /\ Len(b.pool[k]) = Len(o.pool[k])
               /\ \A i \in 1..Len(o.pool[k]) :
                    Len(b.pool[k][i].ext.blocks) = Len(o.pool[k][i].ext.blocks)
    BY <1>1, <1>2
  <2>2. ASSUME NEW k \in 1..Len(o.pool)
        PROVE  (/\ Len(b.pool[k]) <= MaxElements
                /\ \A i \in 1..Len(b.pool[k]) :
                     Len(b.pool[k][i].ext.blocks) <= MaxElements)
               <=> (/\ Len(o.pool[k]) <= MaxElements
                    /\ \A i \in 1..Len(o.pool[k]) :
                         Len(o.pool[k][i].ext.blocks) <= MaxElements)
    BY <2>1
  <2> QED BY <1>1, <2>2
<1>6. AtDepth(MaxDepth, BlocksOf(b), BlocksIn(b.pool)) =
        AtDepth(MaxDepth, BlocksOf(o), BlocksIn(o.pool))
  BY <1>3, <1>4
<1>7. \A c : WithinLimits(c) <=>
        /\ c.strings <= MaxElements
        /\ Len(c.plans) <= MaxElements /\ Len(c.funcs) <= MaxElements
        /\ \A i \in 1..Len(c.plans) : Len(c.plans[i].blocks) <= MaxElements
        /\ \A i \in 1..Len(c.funcs) : Len(c.funcs[i].blocks) <= MaxElements
        /\ Pool(c)
        /\ AtDepth(MaxDepth, BlocksOf(c), BlocksIn(c.pool)) = {}
  BY DEF WithinLimits
<1> HIDE DEF Pool
<1> QED BY <1>1, <1>5, <1>6, <1>7

LEMMA ImageAdmitted ==
    ASSUME NEW b, NEW o, NEW payload, CompiledOf(b, o), o.funcs \in Seq(FunctionRecords),
           Fits(o), PayloadWithin(payload)
    PROVE  Admitted(WriteBundle(b, payload))
<1>1. WriteBundle(b, payload).payload = payload
  BY DEF WriteBundle
<1>2. WithinLimits(ReadBundle(WriteBundle(b, payload)))
  <2>1. CompiledOf(ReadBundle(WriteBundle(b, payload)), o)
    BY ImageKept
  <2> QED BY <2>1, LimitsAlike DEF Fits
<1> QED BY <1>1, <1>2 DEF Admitted

LEMMA QueryPlan ==
    ASSUME NEW tree, TreeWellFormed(tree), Distinct(tree.plans)
    PROVE  LET q == FromNode(tree).query_plan IN
           q # NoPlan => Named(tree.plans, q, tree.query)
<1> DEFINE q == FromNode(tree).query_plan
           index == IndexBySize(tree.plans)
<1>1. q = IF tree.query \in Names(tree.plans) THEN index[tree.query] ELSE NoPlan
  BY DEF FromNode, IndexBySize
<1>2. \A n \in Names(tree.plans) : Named(tree.plans, index[n], n)
  BY OneIndex DEF TreeWellFormed
<1> HIDE DEF q, index
<1> QED BY <1>1, <1>2 DEF q

(***************************************************************************)
(* The life of a bundle: what each form still has of the tree it was made  *)
(* from.  An image that is not understood, or refused, is the end of it.   *)
(***************************************************************************)
LifeInv ==
  /\ TreeWellFormed(origin) /\ form \in Forms
  /\ form = "tree" => SameTree(bundle, origin)
  /\ form = "json" => Loadable(bundle) /\ SameTree(PolicyFromJson(bundle), origin)
  /\ form = "compiled" => CompiledOf(bundle, FromNode(origin))
  /\ form = "binary" => /\ CompiledOf(ReadBundle(bundle), FromNode(origin))
                        /\ Fits(FromNode(origin)) => Readable(bundle)
                        /\ Fits(FromNode(origin)) /\ PayloadWithin(bundle.payload)
                             => Admitted(bundle)
  /\ form = "garbled" => ~Fits(FromNode(origin))
  /\ form = "refused" => ~(Fits(FromNode(origin)) /\ PayloadWithin(bundle.payload))

LEMMA LifeInit == Init => LifeInv
<1> SUFFICES ASSUME Init PROVE LifeInv
  OBVIOUS
<1>1. TreeWellFormed(origin) /\ bundle = origin /\ form = "tree"
  BY ProgramsWellFormed DEF Init
<1>2. SameTree(bundle, origin)
  BY <1>1 DEF SameTree, SamePool, SameStatement
<1> QED BY <1>1, <1>2 DEF LifeInv, Forms

LEMMA LifeStep == LifeInv /\ [Next]_vars => LifeInv'
<1> SUFFICES ASSUME LifeInv, [Next]_vars PROVE LifeInv'
  OBVIOUS
<1> DEFINE o == FromNode(origin)
<1>0. TreeWellFormed(origin) /\ o.plans = origin.plans /\ o.funcs = origin.funcs
      /\ origin.funcs \in Seq(FunctionRecords)
  BY DEF LifeInv, FromNode, TreeWellFormed
<1>1. CASE Lower
  <2>1. SameTree(bundle, origin)
    BY <1>1 DEF Lower, LifeInv
  <2>2. bundle' = o /\ CompiledOf(o, o)
    BY <1>0, <1>1, <2>1, SameProgram, LoweredProgram DEF Lower
  <2> QED BY <1>0, <1>1, <2>2 DEF Lower, LifeInv, Forms
<1>2. CASE SaveJson
  <2>1. SameTree(bundle, origin)
    BY <1>2 DEF SaveJson, LifeInv
  <2>2. Loadable(bundle') /\ SameTree(PolicyFromJson(bundle'), origin)
    BY <1>0, <1>2, <2>1, JsonTree DEF SaveJson
  <2> QED BY <1>0, <1>2, <2>2 DEF SaveJson, LifeInv, Forms
<1>3. CASE LoadJson
  <2>1. Loadable(bundle) /\ SameTree(PolicyFromJson(bundle), origin)
    BY <1>3 DEF LoadJson, LifeInv
  <2>2. form' = "tree" /\ bundle' = PolicyFromJson(bundle) /\ origin' = origin
    BY <1>3, <2>1 DEF LoadJson
  <2> QED BY <1>0, <2>1, <2>2 DEF LifeInv, Forms
<1>4. CASE SaveBinary
  <2>1. CompiledOf(bundle, o)
    BY <1>4 DEF SaveBinary, LifeInv
  <2>2. PICK payload \in Payloads : bundle' = WriteBundle(bundle, payload)
    BY <1>4 DEF SaveBinary
  <2>3. form' = "binary" /\ origin' = origin
    BY <1>4 DEF SaveBinary
  <2>4. bundle'.payload = payload
    BY <2>2 DEF WriteBundle
  <2> HIDE DEF o
  <2>5. /\ CompiledOf(ReadBundle(bundle'), o)
        /\ Fits(o) => Readable(bundle')
        /\ Fits(o) /\ PayloadWithin(bundle'.payload) => Admitted(bundle')
    BY <1>0, <2>1, <2>2, <2>4, ImageKept, ImageReadable, ImageAdmitted DEF o
  <2> QED BY <1>0, <2>3, <2>5 DEF LifeInv, Forms, o
<1>5. CASE LoadBinary
  <2>1. /\ CompiledOf(ReadBundle(bundle), o)
        /\ Fits(o) => Readable(bundle)
        /\ Fits(o) /\ PayloadWithin(bundle.payload) => Admitted(bundle)
    BY <1>5 DEF LoadBinary, LifeInv
  <2>2. CASE Readable(bundle) /\ Admitted(bundle)
    BY <1>0, <1>5, <2>1, <2>2 DEF LoadBinary, LifeInv, Forms
  <2>3. CASE Readable(bundle) /\ ~Admitted(bundle)
    BY <1>0, <1>5, <2>1, <2>3 DEF LoadBinary, LifeInv, Forms
  <2>4. CASE ~Readable(bundle)
    BY <1>0, <1>5, <2>1, <2>4 DEF LoadBinary, LifeInv, Forms
  <2> QED BY <2>2, <2>3, <2>4
<1>6. CASE Bind
  BY <1>0, <1>6 DEF Bind, LifeInv
<1>7. CASE UNCHANGED vars
  BY <1>0, <1>7 DEF vars, LifeInv
<1> QED BY <1>1, <1>2, <1>3, <1>4, <1>5, <1>6, <1>7 DEF Next

LEMMA Life == Spec => []LifeInv
BY LifeInit, LifeStep, PTL DEF Spec

(***************************************************************************)
(* Through every sequence of saves and loads, in either format, a program  *)
(* that fits keeps what the machine reads of it (from_node, bundle_json,   *)
(* bundle_binary).                                                         *)
(***************************************************************************)
THEOREM ProgramCorrect == Spec => []ProgramKept
<1>1. ASSUME LifeInv PROVE ProgramKept
  <2> DEFINE o == FromNode(origin)
  <2> SUFFICES ASSUME Fits(o)
               PROVE  /\ form # "garbled"
                      /\ form = "refused" => ~PayloadWithin(bundle.payload)
                      /\ form = "compiled" => ProgramMeaning(bundle) = ProgramMeaning(o)
    BY DEF ProgramKept
  <2>1. form # "garbled" /\ (form = "refused" => ~PayloadWithin(bundle.payload))
    BY <1>1 DEF LifeInv
  <2>2. ASSUME form = "compiled" PROVE ProgramMeaning(bundle) = ProgramMeaning(o)
    <3>1. CompiledOf(bundle, o) /\ o.funcs \in Seq(FunctionRecords) /\ Distinct(o.funcs)
      BY <1>1, <2>2 DEF LifeInv, TreeWellFormed, FromNode, Fits
    <3>2. IndexByPosition(o.funcs) = IndexBySize(o.funcs) /\ o.func_index = IndexBySize(o.funcs)
      <4>1. IndexByPosition(o.funcs) = IndexBySize(o.funcs)
        BY <3>1, OneIndex
      <4> QED BY <4>1 DEF FromNode
    <3> HIDE DEF o
    <3>3. /\ bundle.locals = o.locals /\ bundle.strings = o.strings /\ bundle.plans = o.plans
          /\ bundle.funcs = o.funcs /\ bundle.func_index = o.func_index
          /\ bundle.query_plan = o.query_plan
      BY <3>1, <3>2 DEF CompiledOf
    <3>4. [k \in 1..Len(bundle.pool) |->
             [i \in 1..Len(bundle.pool[k]) |-> Meaning(bundle.pool[k][i])]] =
          [k \in 1..Len(o.pool) |-> [i \in 1..Len(o.pool[k]) |-> Meaning(o.pool[k][i])]]
      BY <3>1 DEF CompiledOf
    <3> QED BY <3>3, <3>4 DEF ProgramMeaning
  <2> QED BY <2>1, <2>2
<1> QED BY <1>1, Life, PTL

(***************************************************************************)
(* No statement of any compiled form has an operand that unpack_operand    *)
(* throws on.                                                              *)
(***************************************************************************)
THEOREM OperandsCorrect == Spec => []OperandsUnpack
<1>1. ASSUME NEW st, Shaped(st), NEW op \in Unpacked(st)
      PROVE  WritableOperand(op)
  <2>1. op \in Operands
    <3>1. CASE st.type \in UnpackOp0 /\ op = st.op0
      BY <1>1, <3>1 DEF Shaped
    <3>2. CASE st.type \in UnpackOp1 /\ op = st.op1
      BY <1>1, <3>2 DEF Shaped
    <3>3. CASE st.type \in {"Call", "CallDynamic"} /\ op \in {st.ext.ops[i] : i \in 1..Len(st.ext.ops)}
      <4>1. st.ext.ops \in Seq(Operands)
        BY <1>1, <3>3 DEF Shaped, ExtShaped
      <4> QED BY <3>3, <4>1
    <3>4. CASE st.type = "CallDynamic" /\ op \in {st.ext.path[i] : i \in 1..Len(st.ext.path)}
      <4>1. st.ext.path \in Seq(Operands)
        BY <1>1, <3>4 DEF Shaped, ExtShaped
      <4> QED BY <3>4, <4>1
    <3> QED BY <1>1, <3>1, <3>2, <3>3, <3>4 DEF Unpacked
  <2> QED BY <2>1 DEF Operands, WritableOperand
<1>2. ASSUME LifeInv PROVE OperandsUnpack
  <2>1. form = "compiled" => \A k \in 1..Len(bundle.pool) :
                               \A i \in 1..Len(bundle.pool[k]) : Shaped(bundle.pool[k][i])
    BY <1>2 DEF LifeInv, CompiledOf
  <2> QED BY <1>1, <2>1 DEF OperandsUnpack
<1> QED BY <1>2, Life, PTL

(***************************************************************************)
(* In every compiled form of a program that fits, the query runs the plan  *)
(* of its name and every entry point the plan it names.                    *)
(***************************************************************************)
THEOREM NamesCorrect == Spec => []NamesFindTheirPlan
<1>1. ASSUME LifeInv PROVE NamesFindTheirPlan
  <2> DEFINE o == FromNode(origin)
  <2> SUFFICES ASSUME form = "compiled", Fits(o) PROVE PlansFound(bundle)
    BY DEF NamesFindTheirPlan
  <2>1. /\ CompiledOf(bundle, o) /\ TreeWellFormed(origin)
        /\ o.plans = origin.plans /\ Distinct(origin.plans)
    BY <1>1 DEF LifeInv, FromNode, Fits
  <2>2. /\ IndexByPosition(origin.plans) = IndexBySize(origin.plans)
        /\ \A n \in Names(origin.plans) : Named(origin.plans, IndexBySize(origin.plans)[n], n)
    BY <2>1, OneIndex DEF TreeWellFormed
  <2>3. o.query_plan # NoPlan => Named(origin.plans, o.query_plan, origin.query)
    BY <2>1, QueryPlan
  <2>4. DOMAIN IndexBySize(origin.plans) = Names(origin.plans)
    BY DEF IndexBySize
  <2> HIDE DEF o
  <2>5. /\ bundle.plans = origin.plans /\ bundle.plan_index = IndexBySize(origin.plans)
        /\ bundle.query_plan = o.query_plan
    BY <2>1, <2>2 DEF CompiledOf
  <2> QED BY <2>2, <2>3, <2>4, <2>5 DEF PlansFound
<1> QED BY <1>1, Life, PTL

-----------------------------------------------------------------------------
(***************************************************************************)
(* A statement the check accepts it accepts again once it was written and  *)
(* read: a number that comes back as a Local or a String is within the     *)
(* table that kind is checked against.                                     *)
(***************************************************************************)
LEMMA StatementAcceptedAgain ==
    ASSUME NEW st, Shaped(st), NEW b, NEW c, StatementOK(st, b),
           c.locals = b.locals, c.strings = b.strings, c.funcs = b.funcs,
           c.func_index = b.func_index
    PROVE  StatementOK(ReadStatement(WriteStatement(st)), c)
<1> DEFINE r == ReadStatement(WriteStatement(st))
           t == st.type
<1>1. /\ r.type = t /\ Shaped(r) /\ r.ext = st.ext
      /\ t \in TargetUsers => r.target = st.target
      /\ t \in NumberOp0 => r.op0 = Operand(ReadKind(t), st.op0.n)
      /\ t \in RawLocals => r.op1 = Operand(ReadKind(t), st.op1.n)
      /\ t \in UnpackOp0 => r.op0 = st.op0
      /\ t \in UnpackOp1 => r.op1 = st.op1
  <2>1. Meaning(r) = Meaning(st) /\ Shaped(r)
    BY ReadBack
  <2>2. r.type = st.type /\ r.ext = st.ext
    BY <2>1 DEF Meaning
  <2>3. /\ t \in UnpackOp0 => r.op0 = st.op0
        /\ t \in UnpackOp1 => r.op1 = st.op1
    BY <2>1, <2>2 DEF Meaning
  <2> QED BY <2>1, <2>2, <2>3, ReadBack
<1>2. /\ t \notin UnpackOp0 \cup NumberOp0 => r.op0 = NoOperand
      /\ t \notin UnpackOp1 \cup RawLocals => r.op1 = NoOperand
  BY <1>1 DEF Shaped
<1>3. \A k, n : Operand(k, n).kind = k /\ Operand(k, n).n = n
  BY DEF Operand
<1> HIDE DEF r
<1>4. t \notin TargetUnread => t \in TargetUsers
  BY DEF Shaped, TargetUsers, TargetUnread
<1>5. \A op : OperandOK(op, c) <=> OperandOK(op, b)
  BY DEF OperandOK
<1>6. OperandOK(NoOperand, c) /\ \A n : OperandOK(Operand("None", n), c)
  BY <1>3 DEF OperandOK, NoOperand
<1>7. /\ \A n : n < b.locals => /\ OperandOK(Operand("Local", n), c)
                                /\ OperandOK(Operand("Index", n), c)
      /\ \A n : n < b.strings => OperandOK(Operand("String", n), c)
  BY <1>3 DEF OperandOK
<1>8. \A op : OperandOK(op, b) /\ op.kind \in {"Local", "Index"} => op.n < b.locals
  BY DEF OperandOK
<1>9. OperandOK(r.op0, c)
  <2>1. CASE t \in {"AssignInt", "MakeNumberInt", "MakeArray"}
    BY <1>1, <1>6, <2>1 DEF NumberOp0, ReadKind
  <2>2. CASE t = "Break"
    <3>1. st.op0.kind = "Index"
      <4>1. t \in NumberOp0 /\ NumberKind(t, st.op0.kind)
        BY <2>2 DEF Shaped, NumberOp0
      <4> QED BY <2>2, <4>1 DEF NumberKind, RawLocals
    <3>2. r.op0 = Operand("Index", st.op0.n)
      BY <1>1, <2>2 DEF NumberOp0, ReadKind
    <3> QED BY <1>7, <1>8, <3>1, <3>2 DEF StatementOK
  <2>3. CASE t = "MakeNumberRef"
    <3>1. r.op0 = Operand("String", st.op0.n)
      BY <1>1, <2>3 DEF NumberOp0, ReadKind
    <3> QED BY <1>7, <2>3, <3>1 DEF StatementOK
  <2>4. CASE t \in RawLocals
    <3>1. st.op0.kind \in {"Index", "Local"}
      BY <2>4 DEF Shaped, NumberKind, NumberOp0, RawLocals
    <3>2. r.op0 = Operand("Local", st.op0.n)
      BY <1>1, <2>4 DEF NumberOp0, ReadKind, RawLocals
    <3> QED BY <1>7, <1>8, <3>1, <3>2 DEF StatementOK
  <2>5. CASE t \in UnpackOp0
    BY <1>1, <1>5, <2>5 DEF StatementOK
  <2>6. CASE t \notin UnpackOp0 \cup NumberOp0
    BY <1>2, <1>6, <2>6
  <2> QED BY <2>1, <2>2, <2>3, <2>4, <2>5, <2>6 DEF NumberOp0, RawLocals
<1>10. OperandOK(r.op1, c)
  <2>1. CASE t \in RawLocals
    <3>1. st.op1.kind \in {"Index", "Local"}
      BY <2>1 DEF Shaped, NumberKind, RawLocals
    <3>2. r.op1 = Operand("Local", st.op1.n)
      BY <1>1, <2>1 DEF ReadKind, RawLocals
    <3> QED BY <1>7, <1>8, <3>1, <3>2 DEF StatementOK
  <2>2. CASE t \in UnpackOp1
    BY <1>1, <1>5, <2>2 DEF StatementOK
  <2>3. CASE t \notin UnpackOp1 \cup RawLocals
    BY <1>2, <1>6, <2>3
  <2> QED BY <2>1, <2>2, <2>3
<1>11. t \in {"MakeNumberRef", "Break"} => r.op0.n = st.op0.n
  BY <1>1, <1>3 DEF NumberOp0
<1>12. t \notin TargetUnread => r.target >= 0 /\ r.target < c.locals
  BY <1>1, <1>4 DEF StatementOK
<1>13. /\ t = "Call" => CallOK(r, c)
       /\ t = "CallDynamic" =>
            /\ \A i \in 1..Len(r.ext.path) : OperandOK(r.ext.path[i], c)
            /\ \A i \in 1..Len(r.ext.ops) : OperandOK(r.ext.ops[i], c)
       /\ t = "With" => \A i \in 1..Len(r.ext.path) : r.ext.path[i] < c.strings
  BY <1>1, <1>5 DEF StatementOK, CallOK
<1> QED BY <1>1, <1>9, <1>10, <1>11, <1>12, <1>13 DEF StatementOK, r

LEMMA AcceptedAgain ==
    ASSUME NEW b, NEW o, NEW payload, CompiledOf(b, o), o.funcs \in Seq(FunctionRecords), Distinct(o.funcs),
           o.plans \in Seq(PlanRecords), Verify(b)
    PROVE  Verify(ReadBundle(WriteBundle(b, payload)))
<1> DEFINE r == ReadBundle(WriteBundle(b, payload))
<1>1. /\ r.strings = b.strings /\ r.locals = b.locals /\ r.plans = b.plans
      /\ r.funcs = b.funcs
      /\ r.func_index = IndexByPosition(b.funcs)
      /\ Len(r.pool) = Len(b.pool)
      /\ \A k \in 1..Len(b.pool) :
           /\ Len(r.pool[k]) = Len(b.pool[k])
           /\ \A i \in 1..Len(b.pool[k]) :
                r.pool[k][i] = ReadStatement(WriteStatement(b.pool[k][i]))
  <2>1. r = ReadBundle(WriteBundle(b, payload))
    OBVIOUS
  <2> HIDE DEF r
  <2>2. ReadAs(r, b)
    BY <2>1, ImageRead
  <2> QED BY ONLY <2>2 DEF ReadAs
<1>2. r.func_index = b.func_index
  <2>1. IndexBySize(o.funcs) = IndexByPosition(o.funcs)
    BY OneIndex
  <2> QED BY <1>1, <2>1 DEF CompiledOf
<1>3. r.query_plan # NoPlan => r.query_plan < Len(r.plans)
  <2> DEFINE q == b.query_plan
             image == WriteBundle(b, payload)
  <2>1. q \in Nat \cup {NoPlan} /\ (q # NoPlan => q < Len(b.plans)) /\ Len(b.plans) \in Nat
    BY DEF Verify, CompiledOf
  <2>2. image.query_plan = IF q = NoPlan THEN -1 ELSE SignedByte(q)
    BY DEF WriteBundle
  <2>3. r.query_plan = IF image.query_plan >= 0 THEN image.query_plan ELSE NoPlan
    BY DEF ReadBundle
  <2> HIDE DEF q, image, r
  <2>4. ASSUME q \in Nat PROVE SignedByte(q) \in Int /\ SignedByte(q) <= q
    <3> DEFINE m == q % (ByteMax + 1)
    <3>1. m \in Nat /\ m <= q /\ m <= ByteMax
      <4>1. m \in 0..ByteMax /\ m <= q
        BY <2>4, ByteLeast
      <4> HIDE DEF m
      <4> QED BY <4>1, ByteAssumption
    <3>2. SignedByte(q) = IF m > SByteMax THEN m - (ByteMax + 1) ELSE m
      BY DEF SignedByte
    <3> HIDE DEF m
    <3> QED BY <2>4, <3>1, <3>2, ByteAssumption
  <2>5. r.query_plan # NoPlan => r.query_plan < Len(b.plans)
    <3>1. CASE q = NoPlan
      BY <2>2, <2>3, <3>1 DEF NoPlan
    <3>2. CASE q # NoPlan
      BY <2>1, <2>2, <2>3, <2>4, <3>2
    <3> QED BY <3>1, <3>2
  <2> QED BY <1>1, <2>5
<1> HIDE DEF r
<1>4. ASSUME NEW i \in 1..Len(r.funcs) PROVE FunctionOK(r.funcs[i], r)
  BY <1>1 DEF Verify, FunctionOK
<1>5. ASSUME NEW k \in 1..Len(r.pool), NEW i \in 1..Len(r.pool[k])
      PROVE  StatementOK(r.pool[k][i], r)
  <2>1. k \in 1..Len(b.pool) /\ i \in 1..Len(b.pool[k])
        /\ r.pool[k][i] = ReadStatement(WriteStatement(b.pool[k][i]))
    BY <1>1
  <2>2. Shaped(b.pool[k][i]) /\ StatementOK(b.pool[k][i], b)
    BY <2>1 DEF CompiledOf, Verify
  <2> QED BY <1>1, <1>2, <2>1, <2>2, StatementAcceptedAgain
<1> QED BY <1>3, <1>4, <1>5 DEF Verify, r

(***************************************************************************)
(* While a machine has only accepted the bundle, the check accepts it in   *)
(* the compiled form it has, or would have when its image is read.         *)
(***************************************************************************)
AcceptInv ==
  /\ verdicts # {} => form \notin {"tree", "json"}
  /\ Distinct(origin.funcs) /\ "accepted" \in verdicts /\ "refused" \notin verdicts =>
       /\ form = "compiled" => Verify(bundle)
       /\ form = "binary" => Verify(ReadBundle(bundle))

LEMMA AcceptInit == Init => AcceptInv
BY DEF Init, AcceptInv

LEMMA AcceptStep == LifeInv /\ AcceptInv /\ [Next]_vars => AcceptInv'
<1> SUFFICES ASSUME LifeInv, AcceptInv, [Next]_vars PROVE AcceptInv'
  OBVIOUS
<1>1. CASE Lower
  BY <1>1 DEF Lower, AcceptInv
<1>2. CASE SaveJson
  BY <1>2 DEF SaveJson, AcceptInv
<1>3. CASE LoadJson
  BY <1>3 DEF LoadJson, AcceptInv
<1>4. CASE SaveBinary
  <2> DEFINE o == FromNode(origin)
  <2>1. CompiledOf(bundle, o) /\ o.funcs = origin.funcs
        /\ o.funcs \in Seq(FunctionRecords) /\ o.plans \in Seq(PlanRecords)
    BY <1>4 DEF SaveBinary, LifeInv, TreeWellFormed, FromNode
  <2> HIDE DEF o
  <2>2. PICK payload \in Payloads : bundle' = WriteBundle(bundle, payload)
    BY <1>4 DEF SaveBinary
  <2>3. Distinct(origin.funcs) /\ Verify(bundle) => Verify(ReadBundle(bundle'))
    BY <2>1, <2>2, AcceptedAgain
  <2> QED BY <1>4, <2>3 DEF SaveBinary, AcceptInv
<1>5. CASE LoadBinary
  BY <1>5 DEF LoadBinary, AcceptInv
<1>6. CASE Bind
  BY <1>6 DEF Bind, AcceptInv
<1>7. CASE UNCHANGED vars
  BY <1>7 DEF vars, AcceptInv
<1> QED BY <1>1, <1>2, <1>3, <1>4, <1>5, <1>6, <1>7 DEF Next

(***************************************************************************)
(* A bundle VirtualMachine::bundle has accepted is not refused after any   *)
(* number of saves and loads, of any size.                                 *)
(***************************************************************************)
THEOREM NeverRefusedCorrect == Spec => NeverRefusedLater
<1> DEFINE Kept == (/\ Distinct(origin.funcs)
                    /\ "accepted" \in verdicts /\ "refused" \notin verdicts)
                     => "refused" \notin verdicts'
<1>1. AcceptInv /\ [Next]_vars => [Kept]_vars
  <2> SUFFICES ASSUME AcceptInv, Next, Distinct(origin.funcs),
                      "accepted" \in verdicts, "refused" \notin verdicts
               PROVE  "refused" \notin verdicts'
    OBVIOUS
  <2>1. CASE Lower \/ SaveJson \/ LoadJson \/ SaveBinary \/ LoadBinary
    BY <2>1 DEF Lower, SaveJson, LoadJson, SaveBinary, LoadBinary
  <2>2. CASE Bind
    BY <2>2 DEF Bind, AcceptInv
  <2> QED BY <2>1, <2>2 DEF Next
<1>2. Spec => []AcceptInv
  BY AcceptInit, AcceptStep, Life, PTL DEF Spec
<1> QED BY <1>1, <1>2, PTL DEF Spec, NeverRefusedLater
=============================================================================
