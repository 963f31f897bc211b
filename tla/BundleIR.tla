------------------------------ MODULE BundleIR ------------------------------
(***************************************************************************)
(* The intermediate representation of a bundle and its structural check.   *)
(*                                                                         *)
(* A bundle exists in two forms in memory.  The tree (wf_bundle) is what   *)
(* the compiler produces and what the JSON files of a bundle hold; the     *)
(* compiled form (BundleDef) is what the virtual machine runs and what the *)
(* binary file holds.  from_node lowers the first to the second: the       *)
(* fields of a statement are moved to the slots target, op0, op1 and ext   *)
(* that all 34 kinds of statement share, so that which slot holds what is  *)
(* a convention the lowering, the verifier, the binary reader and writer   *)
(* and the machine have to agree on.  The tables below are that            *)
(* convention, each read off its own function of the code.                 *)
(*                                                                         *)
(* Nested blocks are kept in a pool: a statement refers to the blocks it   *)
(* contains by their place in the pool.                                    *)
(***************************************************************************)
EXTENDS Integers, Sequences, FiniteSets

(***************************************************************************)
(* Operands, and the empty extension (Operand, StatementExt).              *)
(***************************************************************************)
OperandKinds == {"None", "Local", "String", "True", "False", "Index", "Value"}

Operand(k, i) == [kind |-> k, n |-> i]
Local(i) == Operand("Local", i)
Number(i) == Operand("Value", i)

NoOperand == Operand("None", 0)

NoExt == [func |-> "", path |-> <<>>, ops |-> <<>>, blocks |-> <<>>]

(***************************************************************************)
(* The fields a statement has in the tree, by what they hold: the index of *)
(* a local, an operand, a number, a name, lists of operands or of string   *)
(* indices, or blocks (wf_bundle).  Locals and numbers are nodes with a    *)
(* kind of their own, as operands are.  The operands that name the callee  *)
(* of a dynamic call are the field Path here (Func in wf_bundle).          *)
(***************************************************************************)
LocalFields ==
  [ ArrayAppend |-> {"Array"}, AssignInt |-> {"Target"},
    AssignVarOnce |-> {"Target"}, AssignVar |-> {"Target"},
    Block |-> {}, Break |-> {}, CallDynamic |-> {"Result"},
    Call |-> {"Result"}, Dot |-> {"Target"}, Equal |-> {}, IsArray |-> {},
    IsDefined |-> {"Src"}, IsObject |-> {}, IsSet |-> {},
    IsUndefined |-> {"Src"}, Len |-> {"Target"}, MakeArray |-> {"Target"},
    MakeNull |-> {"Target"}, MakeNumberInt |-> {"Target"},
    MakeNumberRef |-> {"Target"}, MakeObject |-> {"Target"},
    MakeSet |-> {"Target"}, NotEqual |-> {}, Not |-> {},
    ObjectInsertOnce |-> {"Object"}, ObjectInsert |-> {"Object"},
    ObjectMerge |-> {"Lhs", "Rhs", "Target"}, ResetLocal |-> {"Target"},
    ResultSetAdd |-> {"Val"}, ReturnLocal |-> {"Src"},
    Scan |-> {"Src", "Key", "Val"}, SetAdd |-> {"Set"},
    With |-> {"LocalIndex"} ]

StatementTypes == DOMAIN LocalFields

OperandFields(t) ==
  CASE t \in {"ArrayAppend", "SetAdd", "With"} -> {"Val"}
    [] t \in {"AssignVarOnce", "AssignVar", "IsArray", "IsObject", "IsSet",
              "Len"} -> {"Src"}
    [] t = "Dot" -> {"Src", "Key"}
    [] t \in {"Equal", "NotEqual"} -> {"Lhs", "Rhs"}
    [] t \in {"ObjectInsert", "ObjectInsertOnce"} -> {"Key", "Val"}
    [] OTHER -> {}

OtherFields(t) ==
  CASE t \in {"AssignInt", "MakeNumberInt"} -> {"Val"}
    [] t \in {"Break", "MakeNumberRef"} -> {"Idx"}
    [] t = "MakeArray" -> {"Capacity"}
    [] t = "Call" -> {"Func", "Args"}
    [] t = "CallDynamic" -> {"Path", "Args"}
    [] t = "Block" -> {"Blocks"}
    [] t \in {"Not", "Scan"} -> {"Block"}
    [] t = "With" -> {"Path", "Block"}
    [] OTHER -> {}

Fields(t) == LocalFields[t] \union OperandFields(t) \union OtherFields(t)

(***************************************************************************)
(* node_to_statement.  A row names the field each slot is filled from, and *)
(* how: an operand is copied with its kind (from_op), a number becomes an  *)
(* Index (from_index, and the two frame writes of a scan) or a Value       *)
(* (from_value).  "" stands for a slot that keeps its default.             *)
(***************************************************************************)
Row(target, op0, op1) == [target |-> target, op0 |-> op0, op1 |-> op1]
Op(f) == [how |-> "op", field |-> f]
Idx(f) == [how |-> "Index", field |-> f]
Val(f) == [how |-> "Value", field |-> f]
Unset == [how |-> "none", field |-> ""]

(* Mutant: the operand of Len is lowered as a number. *)
LoweringLenRaw == Row("Target", Val("Src"), Unset)

LoweringLen == Row("Target", Op("Src"), Unset)

LoweringToLen(t) ==
  CASE t = "ArrayAppend"      -> Row("Array", Op("Val"), Unset)
    [] t = "AssignInt"        -> Row("Target", Val("Val"), Unset)
    [] t \in {"AssignVarOnce", "AssignVar"} -> Row("Target", Op("Src"), Unset)
    [] t = "Len"              -> LoweringLen
    [] t = "Block"            -> Row("", Unset, Unset)
    [] t = "Break"            -> Row("", Idx("Idx"), Unset)
    [] t \in {"Call", "CallDynamic"} -> Row("Result", Unset, Unset)
    [] t = "Dot"              -> Row("Target", Op("Src"), Op("Key"))
    [] t = "Equal"            -> Row("", Op("Lhs"), Op("Rhs"))
    [] t \in {"IsArray", "IsObject", "IsSet"} -> Row("", Op("Src"), Unset)
    [] t \in {"IsDefined", "IsUndefined"} -> Row("Src", Unset, Unset)

LoweringFromMake(t) ==
  CASE t = "MakeArray"        -> Row("Target", Val("Capacity"), Unset)
    [] t \in {"MakeNull", "MakeObject", "MakeSet", "ResetLocal"}
                              -> Row("Target", Unset, Unset)
    [] t = "MakeNumberInt"    -> Row("Target", Val("Val"), Unset)
    [] t = "MakeNumberRef"    -> Row("Target", Idx("Idx"), Unset)
    [] t = "NotEqual"         -> Row("", Op("Lhs"), Op("Rhs"))
    [] t = "Not"              -> Row("", Unset, Unset)
    [] t \in {"ObjectInsertOnce", "ObjectInsert"}
                              -> Row("Object", Op("Key"), Op("Val"))
    [] t = "ObjectMerge"      -> Row("Target", Idx("Lhs"), Idx("Rhs"))
    [] t = "ResultSetAdd"     -> Row("Val", Unset, Unset)
    [] t = "ReturnLocal"      -> Row("Src", Unset, Unset)
    [] t = "Scan"             -> Row("Src", Idx("Key"), Idx("Val"))
    [] t = "SetAdd"           -> Row("Set", Op("Val"), Unset)
    [] t = "With"             -> Row("LocalIndex", Op("Val"), Unset)

FirstHalf == {"ArrayAppend", "AssignInt", "AssignVarOnce", "AssignVar", "Block",
              "Break", "Call", "CallDynamic", "Dot", "Equal", "IsArray",
              "IsDefined", "IsObject", "IsSet", "IsUndefined", "Len"}

Lowering(t) == IF t \in FirstHalf THEN LoweringToLen(t) ELSE LoweringFromMake(t)

LowerOperand(s, src) ==
  CASE src.how = "op"   -> s.f[src.field]
    [] src.how = "none" -> NoOperand
    [] OTHER            -> Operand(src.how, s.f[src.field].n)

LowerExt(s) ==
  CASE s.type = "Call" -> [NoExt EXCEPT !.func = s.f["Func"], !.ops = s.f["Args"]]
    [] s.type = "CallDynamic" ->
         [NoExt EXCEPT !.path = s.f["Path"], !.ops = s.f["Args"]]
    [] s.type = "Block" -> [NoExt EXCEPT !.blocks = s.f["Blocks"]]
    [] s.type \in {"Not", "Scan"} -> [NoExt EXCEPT !.blocks = <<s.f["Block"]>>]
    [] s.type = "With" ->
         [NoExt EXCEPT !.path = s.f["Path"], !.blocks = <<s.f["Block"]>>]
    [] OTHER -> NoExt

LowerStatement(s) ==
  LET row == Lowering(s.type)
  IN  [type   |-> s.type,
       target |-> IF row.target = "" THEN 0 ELSE s.f[row.target].n,
       op0    |-> LowerOperand(s, row.op0),
       op1    |-> LowerOperand(s, row.op1),
       ext    |-> LowerExt(s)]

(***************************************************************************)
(* The locals the lowering sees being written (to_index): the target of    *)
(* each statement and the key and value of a scan.  Operands, parameters   *)
(* and results of functions are not counted.                               *)
(***************************************************************************)
WrittenLocals(s) ==
  LET row == Lowering(s.type)
  IN  (IF row.target = "" THEN {} ELSE {s.f[row.target].n})
        \union (IF s.type = "Scan" THEN {s.f["Key"].n, s.f["Val"].n} ELSE {})

StatementsOf(pool) ==
  UNION {{pool[b][i] : i \in 1..Len(pool[b])} : b \in 1..Len(pool)}

LocalCount(pool) ==
  LET written == {2} \union UNION {WrittenLocals(s) : s \in StatementsOf(pool)}
  IN  1 + (CHOOSE m \in written : \A x \in written : x <= m)

(***************************************************************************)
(* from_node.  The index a name gets is the size its map had before: the   *)
(* number of different names so far.  A name that comes again overwrites   *)
(* its entry, and every name after it gets an index one too small.         *)
(***************************************************************************)
Names(items) == {items[i].name : i \in 1..Len(items)}

IndexBySize(items) ==
  [n \in Names(items) |->
     LET last == CHOOSE i \in 1..Len(items) :
                   /\ items[i].name = n
                   /\ \A j \in (i + 1)..Len(items) : items[j].name # n
         before == Names(SubSeq(items, 1, last - 1))
     IN  Cardinality(before)]

NoPlan == -1

FromNode(tree) ==
  LET plans == IndexBySize(tree.plans)
  IN  [strings    |-> tree.strings,
       locals     |-> LocalCount(tree.pool),
       pool       |-> [b \in 1..Len(tree.pool) |->
                         [i \in 1..Len(tree.pool[b]) |->
                            LowerStatement(tree.pool[b][i])]],
       plans      |-> tree.plans,
       funcs      |-> tree.funcs,
       query      |-> tree.query,
       plan_index |-> plans,
       func_index |-> IndexBySize(tree.funcs),
       query_plan |-> IF tree.query \in DOMAIN plans
                        THEN plans[tree.query] ELSE NoPlan]

(***************************************************************************)
(* BundleDef::verify, which the machine runs on every bundle it is given.  *)
(***************************************************************************)
(* Mutant: an index equal to the number of locals or strings is accepted. *)
OperandOKInclusive(op, b) ==
  CASE op.kind \in {"Local", "Index"} -> op.n <= b.locals
    [] op.kind = "String"             -> op.n <= b.strings
    [] OTHER                          -> TRUE

OperandOK(op, b) ==
  CASE op.kind \in {"Local", "Index"} -> op.n < b.locals
    [] op.kind = "String"             -> op.n < b.strings
    [] OTHER                          -> TRUE

MaxBreakLevels == 256

TargetUnread == {"Equal", "NotEqual", "IsObject", "IsArray", "IsSet", "Block",
                 "Not", "Break", "Nop"}

CallOK(st, b) ==
  /\ \A i \in 1..Len(st.ext.ops) : OperandOK(st.ext.ops[i], b)
  /\ st.ext.func \in DOMAIN b.func_index =>
       Len(b.funcs[b.func_index[st.ext.func] + 1].params) <= Len(st.ext.ops)

StatementOK(st, b) ==
  /\ st.type \notin TargetUnread => st.target >= 0 /\ st.target < b.locals
  /\ OperandOK(st.op0, b) /\ OperandOK(st.op1, b)
  /\ st.type = "MakeNumberRef" => st.op0.n < b.strings
  /\ st.type = "Break" => st.op0.n < MaxBreakLevels
  /\ st.type = "Call" => CallOK(st, b)
  /\ st.type = "CallDynamic" =>
       /\ \A i \in 1..Len(st.ext.path) : OperandOK(st.ext.path[i], b)
       /\ \A i \in 1..Len(st.ext.ops) : OperandOK(st.ext.ops[i], b)
  /\ st.type = "With" =>
       \A i \in 1..Len(st.ext.path) : st.ext.path[i] < b.strings

FunctionOK(f, b) ==
  /\ Len(f.params) >= 2
  /\ \A i \in 1..Len(f.params) : f.params[i] < b.locals
  /\ f.result < b.locals

Verify(b) ==
  /\ b.query_plan # NoPlan => b.query_plan < Len(b.plans)
  /\ \A i \in 1..Len(b.funcs) : FunctionOK(b.funcs[i], b)
  /\ \A k \in 1..Len(b.pool) :
       \A i \in 1..Len(b.pool[k]) : StatementOK(b.pool[k][i], b)

(***************************************************************************)
(* What the machine takes from a statement (run_stmt, run_scan, run_with,  *)
(* run_call): which locals and strings it indexes without a check of its   *)
(* own, and which operands it unpacks.                                     *)
(***************************************************************************)
TargetUsers == StatementTypes \ {"Equal", "NotEqual", "IsObject", "IsArray",
                                 "IsSet", "Block", "Not", "Break"}

UnpackOp0 == {"Len", "IsObject", "IsArray", "IsSet", "AssignVarOnce", "AssignVar",
              "ObjectInsert", "ObjectInsertOnce", "ArrayAppend", "SetAdd", "Dot",
              "Equal", "NotEqual", "With"}

UnpackOp1 == {"ObjectInsert", "ObjectInsertOnce", "Dot", "Equal", "NotEqual"}

RawLocals == {"ObjectMerge", "Scan"}

Unpacked(st) ==
  (IF st.type \in UnpackOp0 THEN {st.op0} ELSE {})
    \union (IF st.type \in UnpackOp1 THEN {st.op1} ELSE {})
    \union (IF st.type = "Call" \/ st.type = "CallDynamic"
              THEN {st.ext.ops[i] : i \in 1..Len(st.ext.ops)} ELSE {})
    \union (IF st.type = "CallDynamic"
              THEN {st.ext.path[i] : i \in 1..Len(st.ext.path)} ELSE {})

LocalsUsed(st) ==
  (IF st.type \in TargetUsers THEN {st.target} ELSE {})
    \union {op.n : op \in {o \in Unpacked(st) : o.kind = "Local"}}
    \union (IF st.type \in RawLocals THEN {st.op0.n, st.op1.n} ELSE {})

StringsUsed(st) ==
  {op.n : op \in {o \in Unpacked(st) : o.kind = "String"}}
    \union (IF st.type = "MakeNumberRef" THEN {st.op0.n} ELSE {})
    \union (IF st.type = "With"
              THEN {st.ext.path[i] : i \in 1..Len(st.ext.path)} ELSE {})

(***************************************************************************)
(* The meaning of a compiled statement: the slots the machine reads, an    *)
(* operand that is only taken for its number without its kind.             *)
(***************************************************************************)
Meaning(st) ==
  [type   |-> st.type,
   target |-> IF st.type \in TargetUsers THEN st.target ELSE 0,
   op0    |-> IF st.type \in UnpackOp0 THEN st.op0 ELSE Operand("raw", st.op0.n),
   op1    |-> IF st.type \in UnpackOp1 THEN st.op1 ELSE Operand("raw", st.op1.n),
   ext    |-> st.ext]

ProgramMeaning(b) ==
  [locals     |-> b.locals,
   strings    |-> b.strings,
   plans      |-> b.plans,
   funcs      |-> b.funcs,
   func_index |-> b.func_index,
   query_plan |-> b.query_plan,
   pool       |-> [k \in 1..Len(b.pool) |->
                     [i \in 1..Len(b.pool[k]) |-> Meaning(b.pool[k][i])]]]
=============================================================================
