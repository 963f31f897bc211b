------------------------------- MODULE RegoVM -------------------------------
(***************************************************************************)
(* The virtual machine that executes a compiled Rego bundle                *)
(* (src/virtual_machine.cc, class VirtualMachine in include/rego/rego.hh). *)
(*                                                                         *)
(* The C++ code is a set of mutually recursive functions (run_block,       *)
(* run_stmt, run_call, run_with, run_scan).  Here the C++ stack is the     *)
(* variable `stack', a sequence of activations whose last element is       *)
(* running, and `code' is the Code that the activation above the last one  *)
(* has just returned to it ("None" when it has returned nothing yet).      *)
(*                                                                         *)
(* m_frame is ONE frame shared by every function of a run: a local holds a *)
(* node, and statements that append or insert mutate the node in place, so *)
(* two locals (or a local and the function cache) can share a node.  A     *)
(* node is an index into `heap'; Null is nullptr.  dot and run_scan hand   *)
(* out the node of an item itself, so a node can also be nested in another *)
(* one, and filling it fills that one.                                     *)
(***************************************************************************)
EXTENDS Integers, Sequences, FiniteSets

CONSTANTS
    Bundles,        \* the bundles the machine may be bound to (see Bundle below)
    Inputs,         \* the input documents
    StmtLimit,      \* m_stmt_limit
    MaxCallDepth,   \* m_max_call_depth
    MaxBlockDepth,  \* m_max_block_depth
    SizeMax,        \* the largest size_t: m_break_count wraps at it
    Merge(_, _),    \* the value merge_objects returns for two values
    KeyText(_)      \* strip_quotes(to_key(v)): a path component of a function

Null  == 0              \* nullptr
Undef == <<"undefined">>
Err   == <<"error">>    \* a node of type Error
NoEntry == -1           \* the function has no entry in m_function_cache

Codes == {"Continue", "Undefined", "Return", "Break", "Error", "Timeout"}
\* What m_errors tells apart here.
ErrorKinds == {"timeout", "rego_recursion_error", "builtin", "arity mismatch",
               "function result", "complete rule conflict", "function conflict",
               "object insert conflict"}

(***************************************************************************)
(* Values are tagged tuples: <<"int", n>>, <<"string", s>>, <<"true">>,    *)
(* <<"false">>, <<"null">>, <<"array", sequence>>, <<"set", set>>,         *)
(* <<"object", function from keys to values>>.                             *)
(***************************************************************************)
Tag(v) == v[1]
Scalars == {"int", "string", "true", "false", "null"}
EmptyObject == <<"object", <<>> >>

\* The keys run_scan and dot see in a value, and the item at a key.
KeysOf(v) == CASE Tag(v) = "array"  -> {<<"int", i - 1>> : i \in DOMAIN v[2]}
               [] Tag(v) = "set"    -> v[2]
               [] Tag(v) = "object" -> DOMAIN v[2]
               [] OTHER             -> {}
ItemAt(v, k) == CASE Tag(v) = "array" -> v[2][k[2] + 1]
                  [] Tag(v) = "set"   -> k
                  [] OTHER            -> v[2][k]
Dot(v, k) == IF k \in KeysOf(v) THEN ItemAt(v, k) ELSE Undef

Put(v, k, x) == <<"object", [j \in DOMAIN v[2] \cup {k} |->
                                IF j = k THEN x ELSE v[2][j]]>>
\* to_term: what cannot be a term becomes an error node inside the container.
ToTerm(v) == IF v = Undef THEN Err ELSE v

\* write_and_swap on a path: levels that are not objects are replaced by
\* objects, the others are copied.
AsObject(v) == IF Tag(v) = "object" THEN v ELSE EmptyObject
SetPath(root, path, x) ==
    LET n == Len(path)
        below[i \in 0..n] == IF i = 0 THEN root
                             ELSE Dot(AsObject(below[i - 1]), path[i])
        new[i \in 0..n] == IF i = n THEN ToTerm(x)
                           ELSE Put(AsObject(below[i]), path[i + 1], new[i + 1])
    IN  IF n = 0 THEN x ELSE new[0]

\* CallDynamic applies dot to what is left of the path after the function.
DotAll(v, keys) ==
    LET d[i \in 0..Len(keys)] == IF i = 0 THEN v ELSE Dot(d[i - 1], keys[i])
    IN  d[Len(keys)]

\* The steps down to an item: its key in an array or an object; the members of
\* a set and the keys of an object are told apart from those.
Fixed == {"member", "key"}
StepTo(v, k) == IF Tag(v) = "set" THEN <<"member", k>> ELSE k
StepsTo(v, keys) == [i \in DOMAIN keys |-> StepTo(DotAll(v, SubSeq(keys, 1, i - 1)), keys[i])]

\* Value v with x in place of what the steps lead to.
PutItem(v, k, x) == IF Tag(v) = "array" THEN <<"array", [v[2] EXCEPT ![k[2] + 1] = x]>>
                                        ELSE Put(v, k, x)
ReplaceAt(v, steps, x) ==
    LET n == Len(steps)
        new[i \in 1..n] == IF i = n THEN x
                           ELSE PutItem(DotAll(v, SubSeq(steps, 1, i)), steps[i + 1], new[i + 1])
    IN  IF n = 0 THEN x ELSE PutItem(v, steps[1], new[1])

-----------------------------------------------------------------------------
(***************************************************************************)
(* Programs.  A bundle is a record                                         *)
(*   blocks:     a sequence of blocks, a block is a sequence of statements *)
(*   plan:       the blocks of the plan being run                          *)
(*   functions:  [name -> [params, result, blocks, arity, cacheable]]      *)
(*   builtins:   [name -> what the built-in returns in this run]           *)
(*   data, local_count.                                                    *)
(* Statements have the fields of struct Statement; op0 and op1 are         *)
(* <<"local", i>>, <<"value", v>> (a string or a boolean) or <<"raw", n>>. *)
(***************************************************************************)
IsSeq(s) == s \in Seq({s[i] : i \in DOMAIN s})
IsLocal(op) == op[1] = "local"
IsRaw(op) == op[1] = "raw"

LocalsOf(b) == 0..(b.local_count - 1)
OperandOK(op, b) == /\ IsLocal(op) => op[2] \in LocalsOf(b)
                    /\ op[1] = "value" => Tag(op[2]) \in Scalars
StatementOK(s, b) ==
    /\ s.target \in LocalsOf(b)
    /\ OperandOK(s.op0, b) /\ OperandOK(s.op1, b)
    /\ IsSeq(s.args) /\ \A i \in DOMAIN s.args : OperandOK(s.args[i], b)
    /\ s.blocks \in Seq(DOMAIN b.blocks)
    /\ s.type \in {"Not", "With", "Scan"} => Len(s.blocks) > 0
    /\ s.type = "Scan" => s.op0[2] \in LocalsOf(b) /\ s.op1[2] \in LocalsOf(b)
    /\ s.type = "Break" => s.op0[2] \in Nat
FunctionOK(f, b) ==
    /\ f.params \in Seq(LocalsOf(b)) /\ f.result \in LocalsOf(b)
    /\ f.blocks \in Seq(DOMAIN b.blocks) /\ f.arity \in Nat
\* What BundleDef::verify establishes before the machine is bound to a bundle.
Verified(b) ==
    /\ b.local_count \in Nat /\ IsSeq(b.blocks)
    /\ \A i \in DOMAIN b.blocks :
         IsSeq(b.blocks[i]) /\ \A j \in DOMAIN b.blocks[i] : StatementOK(b.blocks[i][j], b)
    /\ b.plan \in Seq(DOMAIN b.blocks)
    /\ \A f \in DOMAIN b.functions : FunctionOK(b.functions[f], b)

ASSUME BundlesVerified == \A b \in Bundles : Verified(b)
ASSUME LimitsAssumption ==
    StmtLimit \in Nat /\ MaxCallDepth \in Nat /\ MaxBlockDepth \in Nat /\ SizeMax \in Nat

VARIABLES
    bundle,      \* m_bundle
    frame,       \* m_frame
    heap,        \* the nodes of this run (see Nodes below)
    errors,      \* m_errors
    results,     \* m_result_set
    callStack,   \* m_call_stack, with m_num_args
    cache,       \* m_function_cache
    withCount, breakCount, stmtCount, blockDepth,
    stack,       \* the activations of the C++ functions
    code,        \* what the activation above the last one returned
    status       \* "running", "done", "threw", "crashed" or "malformed"

counters == <<callStack, withCount, breakCount, blockDepth>>
vars == <<bundle, frame, heap, errors, results, cache, stmtCount,
          counters, stack, code, status>>

Locals == LocalsOf(bundle)
Functions == DOMAIN bundle.functions
Top == stack[Len(stack)]
Below == SubSeq(stack, 1, Len(stack) - 1)
Body(b) == bundle.blocks[b]
Stmt == Body(Top.block)[Top.pc]

\* Nodes.  A node is a record of its value, complete with all that is nested in
\* it, of the node it is nested in, `root', and of the steps down from there.
NewNode(n, v) == [value |-> v, root |-> n, steps |-> <<>>]
NestedNode(n, steps, v) == [value |-> v, root |-> heap[n].root, steps |-> heap[n].steps \o steps]

\* read_local and unpack_operand.
ValueOf(n) == IF n = Null THEN Undef ELSE heap[n].value
Read(l) == ValueOf(frame[l])
Unpack(op) == IF IsLocal(op) THEN Read(op[2]) ELSE op[2]

\* write_local of a node that exists (Null resets), of a node made for the
\* purpose, and of an operand.
WriteNode(l, n) == /\ frame' = [frame EXCEPT ![l] = n]
                   /\ UNCHANGED heap
\* Mutant: the index of the node after the new one.
WriteValueDangling(l, v) == IF v = Undef
                            THEN WriteNode(l, Null)
                            ELSE /\ heap' = Append(heap, NewNode(Len(heap) + 1, v))
                                 /\ frame' = [frame EXCEPT ![l] = Len(heap) + 2]
WriteValue(l, v) == IF v = Undef
                    THEN WriteNode(l, Null)
                    ELSE /\ heap' = Append(heap, NewNode(Len(heap) + 1, v))
                         /\ frame' = [frame EXCEPT ![l] = Len(heap) + 1]
\* write_local of what is nested in node n.
WriteItem(l, n, steps, v) == /\ heap' = Append(heap, NestedNode(n, steps, v))
                             /\ frame' = [frame EXCEPT ![l] = Len(heap) + 1]
WriteOperand(l, op) == IF IsLocal(op) THEN WriteNode(l, frame[op[2]])
                                      ELSE WriteValue(l, op[2])

\* Node m is n or has n nested in it; node m is nested in the item of n at a key
\* of `keys', or is that item.
Around(m, n) ==
    \/ m \in {n, heap[n].root}
    \/ /\ heap[m].root = heap[n].root
       /\ \E i \in DOMAIN heap[n].steps : heap[m].steps = SubSeq(heap[n].steps, 1, i)
Inside(m, n, keys) ==
    /\ heap[m].root = heap[n].root
    /\ \E k \in keys, i \in DOMAIN heap[m].steps :
          SubSeq(heap[m].steps, 1, i) = Append(heap[n].steps, k)
StepsBetween(m, n) == SubSeq(heap[n].steps, Len(heap[m].steps) + 1, Len(heap[n].steps))
\* Node n is changed in place to v.  What it had at the keys of `replaced' is no
\* longer part of it: its nodes are nested in one named after the statement.
Fill(n, v, replaced) ==
    /\ heap' = [m \in DOMAIN heap |->
          [value |-> IF Around(m, n) THEN ReplaceAt(heap[m].value, StepsBetween(m, n), v)
                                     ELSE heap[m].value,
           root  |-> IF Inside(m, n, replaced) THEN -stmtCount' ELSE heap[m].root,
           steps |-> heap[m].steps]]
    /\ UNCHANGED frame
\* Mutant: the error of a built-in is returned but not recorded.
AddErrorNotBuiltin(kind) ==
    errors' = IF kind = "builtin" THEN errors ELSE Append(errors, kind)
AddError(kind) == errors' = Append(errors, kind)

Init ==
    /\ bundle \in Bundles
    /\ \E input \in Inputs :
         /\ heap = <<NewNode(1, input), NewNode(2, bundle.data)>>
         /\ frame = [l \in Locals |-> IF l = 0 /\ input # Undef THEN 1
                                      ELSE IF l = 1 THEN 2 ELSE Null]
    /\ errors = <<>> /\ results = <<>> /\ callStack = <<>>
    /\ cache = [f \in Functions |-> NoEntry]
    /\ withCount = 0 /\ breakCount = 0 /\ stmtCount = 0 /\ blockDepth = 0
    /\ stack = << [kind |-> "plan", blocks |-> bundle.plan, next |-> 1] >>
    /\ code = "None"
    /\ status = "running"

-----------------------------------------------------------------------------
(* Activations. *)

Running(kind) == status = "running" /\ Top.kind = kind

\* The last activation returns c to the one below it.
Return(c) == stack' = Below /\ code' = c

\* Mutant: one level more than the limit.
BlocksTooDeepOffByOne == blockDepth > MaxBlockDepth
BlocksTooDeep == blockDepth >= MaxBlockDepth

\* run_block called on block b by the last activation of `base'.
EnterBlock(base, b) ==
    IF BlocksTooDeep
    THEN /\ AddError("rego_recursion_error")
         /\ stack' = base /\ code' = "Error"
         /\ UNCHANGED blockDepth
    ELSE /\ stack' = Append(base, [kind |-> "block", block |-> b, pc |-> 1])
         /\ code' = "None"
         /\ blockDepth' = blockDepth + 1
         /\ UNCHANGED errors

Throw == /\ status' = "threw"
         /\ UNCHANGED <<bundle, frame, heap, errors, results, cache, counters,
                        stack, code>>

\* The loops over blocks of run_plan and of a Block statement.
NextBlock(kind, codes) ==
    /\ Running(kind) /\ code \in codes \cup {"None"}
    /\ Top.next <= Len(Top.blocks)
    /\ EnterBlock(Append(Below, [Top EXCEPT !.next = @ + 1]), Top.blocks[Top.next])
    /\ UNCHANGED <<bundle, frame, heap, results, cache, stmtCount, callStack,
                   withCount, breakCount, status>>

PlanNext == NextBlock("plan", {"Continue"})
PlanDone ==
    /\ Running("plan")
    /\ \/ code \in {"None", "Continue"} /\ Top.next > Len(Top.blocks)
       \/ code \notin {"None", "Continue"}
    /\ status' = "done"
    /\ UNCHANGED <<bundle, frame, heap, errors, results, cache, stmtCount,
                   counters, stack, code>>

\* Mutant: the loop does not move to the next block.
NestRepeats ==
    /\ Running("nest") /\ code \in {"None", "Continue", "Undefined"}
    /\ Top.next <= Len(Top.blocks)
    /\ EnterBlock(stack, Top.blocks[Top.next])
    /\ UNCHANGED <<bundle, frame, heap, results, cache, stmtCount, callStack,
                   withCount, breakCount, status>>
NestNext == NextBlock("nest", {"Continue", "Undefined"})
NestDone ==
    /\ Running("nest")
    /\ \/ /\ code \in {"None", "Continue", "Undefined"}
          /\ Top.next > Len(Top.blocks)
          /\ Return("Continue")
       \/ /\ code \in {"Return", "Error", "Break", "Timeout"}
          /\ Return(code)
    /\ UNCHANGED <<bundle, frame, heap, errors, results, cache, stmtCount,
                   counters, status>>

\* run_block: the statement returned Continue, or there is none left, or it
\* returned another code and the block ends with it.
BlockAdvance ==
    /\ Running("block") /\ code = "Continue"
    /\ stack' = Append(Below, [Top EXCEPT !.pc = @ + 1])
    /\ code' = "None"
    /\ UNCHANGED <<bundle, frame, heap, errors, results, cache, stmtCount,
                   counters, status>>

BlockEnd ==
    /\ Running("block") /\ code = "None"
    /\ Top.pc > Len(Body(Top.block))
    /\ Return("Continue")
    /\ blockDepth' = blockDepth - 1
    /\ UNCHANGED <<bundle, frame, heap, errors, results, cache, stmtCount,
                   callStack, withCount, breakCount, status>>

\* Mutant: leave_block is missed when the block returns from its function.
BlockExitKeepsDepth ==
    /\ Running("block") /\ code \in {"Undefined", "Return", "Error", "Timeout"}
    /\ Return(code)
    /\ blockDepth' = IF code = "Return" THEN blockDepth ELSE blockDepth - 1
    /\ UNCHANGED <<bundle, frame, heap, errors, results, cache, stmtCount,
                   callStack, withCount, breakCount, status>>
BlockExit ==
    /\ Running("block") /\ code \in {"Undefined", "Return", "Error", "Timeout"}
    /\ Return(code)
    /\ blockDepth' = blockDepth - 1
    /\ UNCHANGED <<bundle, frame, heap, errors, results, cache, stmtCount,
                   callStack, withCount, breakCount, status>>

\* pop_break: the block returns Break whether or not a level is left.
BlockBreak ==
    /\ Running("block") /\ code = "Break"
    /\ breakCount' = (breakCount - 1) % (SizeMax + 1)
    /\ Return("Break")
    /\ blockDepth' = blockDepth - 1
    /\ UNCHANGED <<bundle, frame, heap, errors, results, cache, stmtCount,
                   callStack, withCount, status>>

-----------------------------------------------------------------------------
(* Statements.  Every statement is counted before it runs. *)

AtStatement == Running("block") /\ code = "None" /\ Top.pc <= Len(Body(Top.block))

\* Mutant: the limit stops one statement only.
LimitReachedOnce == stmtCount + 1 = StmtLimit
LimitReached == stmtCount + 1 >= StmtLimit

Timeout ==
    /\ AtStatement /\ LimitReached
    /\ stmtCount' = stmtCount + 1
    /\ AddError("timeout")
    /\ code' = "Timeout"
    /\ UNCHANGED <<bundle, frame, heap, results, cache, counters, stack, status>>

\* The operands the statement passes to unpack_operand.
Unpacked(s) ==
    CASE s.type \in {"Len", "IsObject", "IsArray", "IsSet", "AssignVarOnce",
                     "AssignVar", "ArrayAppend", "SetAdd", "With"} -> {s.op0}
      [] s.type \in {"ObjectInsert", "ObjectInsertOnce", "Dot", "Equal",
                     "NotEqual"} -> {s.op0, s.op1}
      [] s.type = "CallDynamic" -> {s.path[i] : i \in DOMAIN s.path}
      [] OTHER -> {}

Executes(types) ==
    /\ AtStatement /\ ~LimitReached
    /\ stmtCount' = stmtCount + 1
    /\ Stmt.type \in types
    /\ \A op \in Unpacked(Stmt) : ~IsRaw(op)

RawOperand ==
    /\ AtStatement /\ ~LimitReached
    /\ stmtCount' = stmtCount + 1
    /\ \E op \in Unpacked(Stmt) : IsRaw(op)
    /\ Throw

\* A statement that runs no block and no function ends with c.
Completes(c) ==
    /\ code' = c
    /\ UNCHANGED <<bundle, results, cache, counters, stack, status>>

NewValue(s) == CASE s.type = "MakeObject" -> EmptyObject
                 [] s.type = "MakeArray"  -> <<"array", <<>> >>
                 [] s.type = "MakeSet"    -> <<"set", {}>>
                 [] s.type = "MakeNull"   -> <<"null">>
                 [] OTHER                 -> <<"int", s.op0[2]>>

Make ==
    /\ Executes({"MakeObject", "MakeArray", "MakeSet", "MakeNull",
                 "MakeNumberRef", "MakeNumberInt", "AssignInt"})
    /\ WriteValue(Stmt.target, NewValue(Stmt))
    /\ Completes("Continue") /\ UNCHANGED errors

MeasureLen ==
    /\ Executes({"Len"})
    /\ WriteValue(Stmt.target, <<"int", Cardinality(KeysOf(Unpack(Stmt.op0)))>>)
    /\ Completes("Continue") /\ UNCHANGED errors

\* A statement that only decides between Continue and Undefined.
Test(type, holds) ==
    /\ Executes({type})
    /\ Completes(IF holds THEN "Continue" ELSE "Undefined")
    /\ UNCHANGED <<frame, heap, errors>>

Tests ==
    \/ Test("IsObject", Tag(Unpack(Stmt.op0)) = "object")
    \/ Test("IsArray", Tag(Unpack(Stmt.op0)) = "array")
    \/ Test("IsSet", Tag(Unpack(Stmt.op0)) = "set")
    \/ Test("IsDefined", frame[Stmt.target] # Null)
    \/ Test("IsUndefined", frame[Stmt.target] = Null)
    \/ Test("Nop", TRUE)
    \/ LET a == Unpack(Stmt.op0)
           b == Unpack(Stmt.op1)
       IN  \/ Test("Equal", Undef \notin {a, b} /\ (a = b \/ Err \in {a, b}))
           \/ Test("NotEqual", Undef \notin {a, b} /\ (a # b \/ Err \in {a, b}))

ResetLocal ==
    /\ Executes({"ResetLocal"})
    /\ WriteNode(Stmt.target, Null)
    /\ Completes("Continue") /\ UNCHANGED errors

AssignVar ==
    /\ Executes({"AssignVar"})
    /\ WriteOperand(Stmt.target, Stmt.op0)
    /\ Completes("Continue") /\ UNCHANGED errors

\* The message of the conflict depends on the arity of the running function.
ConflictError ==
    IF callStack = <<>> \/ callStack[Len(callStack)].arity = 2
    THEN "complete rule conflict" ELSE "function conflict"

AssignVarOnce ==
    /\ Executes({"AssignVarOnce"})
    /\ LET new == Unpack(Stmt.op0)
           old == Read(Stmt.target)
       IN  \/ /\ new = Undef \/ new = old
              /\ Completes("Continue") /\ UNCHANGED <<frame, heap, errors>>
           \/ /\ new # Undef /\ old = Undef
              /\ WriteOperand(Stmt.target, Stmt.op0)
              /\ Completes("Continue") /\ UNCHANGED errors
           \/ /\ new # Undef /\ old # Undef /\ new # old
              /\ AddError(ConflictError)
              /\ Completes("Error") /\ UNCHANGED <<frame, heap>>

Fillers == {"ObjectInsert", "ObjectInsertOnce", "ArrayAppend", "SetAdd"}

\* insert_into_object fails on a node that is not an object and, for
\* ObjectInsertOnce, on a key bound to another value.
\* Mutant: the key is not looked up.
InsertConflictUnchecked(o, k, x, once) == Tag(o) # "object"
InsertConflict(o, k, x, once) ==
    Tag(o) # "object" \/ (once /\ k \in KeysOf(o) /\ ItemAt(o, k) # x)

\* The statement changes the node its target holds.
Fills(s) ==
    IF s.type \in {"ArrayAppend", "SetAdd"}
    THEN frame[s.target] # Null /\ Unpack(s.op0) # Undef
    ELSE ~InsertConflict(Read(s.target), Unpack(s.op0), Unpack(s.op1),
                         s.type = "ObjectInsertOnce")
\* It makes a tree that is no value: what it fills is below a member of a set or
\* a key of an object, or is no array to append to or no set to add to.
Malforms(s) ==
    LET node == heap[frame[s.target]]
    IN  /\ Fills(s)
        /\ \/ s.type = "ArrayAppend" /\ Tag(node.value) # "array"
           \/ s.type = "SetAdd" /\ Tag(node.value) # "set"
           \/ \E i \in DOMAIN node.steps : node.steps[i][1] \in Fixed

ObjectInsert ==
    /\ Executes({"ObjectInsert", "ObjectInsertOnce"}) /\ ~Malforms(Stmt)
    /\ LET k == Unpack(Stmt.op0)
           x == Unpack(Stmt.op1)
           o == Read(Stmt.target)
           conflict == InsertConflict(o, k, x, Stmt.type = "ObjectInsertOnce")
       IN  \/ /\ conflict
              /\ AddError("object insert conflict")
              /\ Completes("Error") /\ UNCHANGED <<frame, heap>>
           \/ /\ ~conflict
              /\ Fill(frame[Stmt.target], Put(o, ToTerm(k), ToTerm(x)), {ToTerm(k)})
              /\ Completes("Continue") /\ UNCHANGED errors

\* A failed merge writes an error node and is not recorded in m_errors; two
\* values that cannot be merged give the node of the first.
Mergeable(v) == Tag(v) \in {"object", "set"}
ObjectMerge ==
    /\ Executes({"ObjectMerge"})
    /\ IF Mergeable(Unpack(Stmt.op0)) \/ Mergeable(Unpack(Stmt.op1))
       THEN WriteValue(Stmt.target, Merge(Unpack(Stmt.op0), Unpack(Stmt.op1)))
       ELSE WriteOperand(Stmt.target, Stmt.op0)
    /\ Completes("Continue") /\ UNCHANGED errors

\* ArrayAppend and SetAdd change the node in place; a missing container is
\* ignored, a missing value makes the statement undefined.
Added(c, x) == CASE Tag(c) = "array" -> <<"array", Append(c[2], x)>>
                 [] Tag(c) = "set"   -> <<"set", c[2] \cup {x}>>
                 [] OTHER            -> c
Add ==
    /\ Executes({"ArrayAppend", "SetAdd"}) /\ ~Malforms(Stmt)
    /\ LET x == Unpack(Stmt.op0)
           n == frame[Stmt.target]
       IN  \/ /\ x = Undef
              /\ Completes("Undefined") /\ UNCHANGED <<frame, heap, errors>>
           \/ /\ x # Undef
              /\ IF n = Null THEN UNCHANGED <<frame, heap>>
                             ELSE Fill(n, Added(heap[n].value, x), {})
              /\ Completes("Continue") /\ UNCHANGED errors

\* BOUND: the machine stops where a fill makes a tree that is no value.
FillMalformed ==
    /\ Executes(Fillers) /\ Malforms(Stmt)
    /\ status' = "malformed"
    /\ UNCHANGED <<bundle, frame, heap, errors, results, cache, counters,
                   stack, code>>

\* dot returns the node of the item.
DotStmt ==
    /\ Executes({"Dot"})
    /\ LET v == Unpack(Stmt.op0)
           k == Unpack(Stmt.op1)
       IN  \/ /\ Dot(v, k) = Undef
              /\ Completes("Undefined") /\ UNCHANGED <<frame, heap>>
           \/ /\ Dot(v, k) # Undef
              /\ WriteItem(Stmt.target, frame[Stmt.op0[2]], <<StepTo(v, k)>>, Dot(v, k))
              /\ Completes("Continue")
    /\ UNCHANGED errors

ResultSetAdd ==
    /\ Executes({"ResultSetAdd"})
    /\ results' = Append(results, frame[Stmt.target])
    /\ code' = "Continue"
    /\ UNCHANGED <<bundle, frame, heap, errors, cache, counters, stack, status>>

ReturnLocal ==
    /\ Executes({"ReturnLocal"})
    /\ Completes("Return") /\ UNCHANGED <<frame, heap, errors>>

BreakStmt ==
    /\ Executes({"Break"})
    /\ breakCount' = (breakCount + Stmt.op0[2]) % (SizeMax + 1)
    /\ code' = "Break"
    /\ UNCHANGED <<bundle, frame, heap, errors, results, cache, callStack,
                   withCount, blockDepth, stack, status>>

-----------------------------------------------------------------------------
(* Statements that run blocks. *)

BlockStmt ==
    /\ Executes({"Block"})
    /\ stack' = Append(stack, [kind |-> "nest", blocks |-> Stmt.blocks, next |-> 1])
    /\ UNCHANGED <<bundle, frame, heap, errors, results, cache, counters, code,
                   status>>

NotStmt ==
    /\ Executes({"Not"})
    /\ EnterBlock(Append(stack, [kind |-> "not"]), Stmt.blocks[1])
    /\ UNCHANGED <<bundle, frame, heap, results, cache, callStack, withCount,
                   breakCount, status>>

NotDone ==
    /\ Running("not") /\ code # "None"
    /\ Return(CASE code \in {"Error", "Timeout"} -> code
                [] code = "Undefined"            -> "Continue"
                [] OTHER                         -> "Undefined")
    /\ UNCHANGED <<bundle, frame, heap, errors, results, cache, stmtCount,
                   counters, status>>

\* run_with: the local, or a path below it, is replaced while the block runs.
\* A path below a local that is not an object dereferences a null parent.
CanSwap(s) == s.path = <<>> \/ Tag(Read(s.target)) \in {"object", "undefined"}

\* Mutant: the path is written into the document itself.
WithInPlace ==
    /\ Executes({"With"}) /\ CanSwap(Stmt)
    /\ withCount' = withCount + 1
    /\ IF Stmt.path = <<>>
       THEN WriteOperand(Stmt.target, Stmt.op0)
       ELSE Fill(frame[Stmt.target],
                 SetPath(Read(Stmt.target), Stmt.path, Unpack(Stmt.op0)), {})
    /\ EnterBlock(Append(stack, [kind |-> "with", target |-> Stmt.target,
                                 old |-> frame[Stmt.target]]),
                  Stmt.blocks[1])
    /\ UNCHANGED <<bundle, results, cache, callStack, breakCount, status>>
WithStmt ==
    /\ Executes({"With"}) /\ CanSwap(Stmt)
    /\ withCount' = withCount + 1
    /\ IF Stmt.path = <<>>
       THEN WriteOperand(Stmt.target, Stmt.op0)
       ELSE WriteValue(Stmt.target,
                       SetPath(Read(Stmt.target), Stmt.path, Unpack(Stmt.op0)))
    /\ EnterBlock(Append(stack, [kind |-> "with", target |-> Stmt.target,
                                 old |-> frame[Stmt.target]]),
                  Stmt.blocks[1])
    /\ UNCHANGED <<bundle, results, cache, callStack, breakCount, status>>

WithCrash ==
    /\ Executes({"With"}) /\ ~CanSwap(Stmt)
    /\ status' = "crashed"
    /\ UNCHANGED <<bundle, frame, heap, errors, results, cache, counters,
                   stack, code>>

\* Mutant: the local is restored only when the block succeeds.
WithDoneOnSuccess ==
    /\ Running("with") /\ code # "None"
    /\ IF code = "Continue" THEN WriteNode(Top.target, Top.old)
                            ELSE UNCHANGED <<frame, heap>>
    /\ withCount' = withCount - 1
    /\ Return(code)
    /\ UNCHANGED <<bundle, errors, results, cache, stmtCount, callStack,
                   breakCount, blockDepth, status>>
WithDone ==
    /\ Running("with") /\ code # "None"
    /\ WriteNode(Top.target, Top.old)
    /\ withCount' = withCount - 1
    /\ Return(code)
    /\ UNCHANGED <<bundle, errors, results, cache, stmtCount, callStack,
                   breakCount, blockDepth, status>>

\* run_scan.  The source is read again at each iteration; an array is visited
\* in index order, the order of an object or a set is left open.
ScanStmt ==
    /\ Executes({"Scan"})
    /\ \/ /\ Tag(Read(Stmt.target)) \in Scalars
          /\ Completes("Undefined")
       \/ /\ Tag(Read(Stmt.target)) \notin Scalars \cup {"error"}
          /\ stack' = Append(stack, [kind |-> "scan", source |-> frame[Stmt.target],
                                     seen |-> {}, key |-> Stmt.op0[2],
                                     value |-> Stmt.op1[2],
                                     block |-> Stmt.blocks[1]])
          /\ UNCHANGED <<bundle, results, cache, counters, code, status>>
    /\ UNCHANGED <<frame, heap, errors>>

ScanThrow ==
    /\ Executes({"Scan"}) /\ Tag(Read(Stmt.target)) = "error"
    /\ Throw

ScanKeys == LET v == ValueOf(Top.source)
            IN  IF Tag(v) = "array" /\ Top.seen # KeysOf(v)
                THEN {<<"int", Cardinality(Top.seen)>>}
                ELSE KeysOf(v) \ Top.seen

\* The nodes of a key and its item: an index is made for the purpose, the rest
\* are those nested in the source; a member of a set is both.
ScannedNodes(n, k) ==
    LET v == ValueOf(n)
        key == CASE Tag(v) = "array"  -> NewNode(Len(heap) + 1, k)
                 [] Tag(v) = "object" -> NestedNode(n, << <<"key", k>> >>, k)
                 [] OTHER             -> NestedNode(n, <<StepTo(v, k)>>, k)
    IN  <<key, NestedNode(n, <<StepTo(v, k)>>, ItemAt(v, k))>>

ScanNext ==
    /\ Running("scan") /\ code \in {"None", "Continue", "Undefined"}
    /\ \E k \in ScanKeys :
         /\ heap' = heap \o ScannedNodes(Top.source, k)
         /\ frame' = [frame EXCEPT ![Top.key] = Len(heap) + 1,
                                   ![Top.value] = Len(heap) + 2]
         /\ EnterBlock(Append(Below, [Top EXCEPT !.seen = @ \cup {k}]), Top.block)
    /\ UNCHANGED <<bundle, results, cache, stmtCount, callStack, withCount,
                   breakCount, status>>

ScanDone ==
    /\ Running("scan")
    /\ \/ /\ code \in {"None", "Continue", "Undefined"} /\ ScanKeys = {}
          /\ Return("Continue")
       \/ /\ code \notin {"None", "Continue", "Undefined"}
          /\ Return(code)
    /\ UNCHANGED <<bundle, frame, heap, errors, results, cache, stmtCount,
                   counters, status>>

-----------------------------------------------------------------------------
(* Calls.  DoCall is run_call up to the binding of the parameters; `base'   *)
(* is the stack of its caller.                                             *)

OnCallStack(f) == \E i \in DOMAIN callStack : callStack[i].name = f
\* Mutant: a result cached outside With is used inside it.
CacheHitInWith(f) == cache[f] # NoEntry
CacheHit(f) == withCount = 0 /\ cache[f] # NoEntry

DoCall(base, f, args, target) ==
    \/ /\ \/ OnCallStack(f)
          \/ f \notin DOMAIN bundle.builtins \cup Functions
          \/ f \in DOMAIN bundle.builtins /\ \E i \in DOMAIN args : IsRaw(args[i])
       /\ Throw
    \/ /\ ~OnCallStack(f) /\ f \in DOMAIN bundle.builtins
       /\ \A i \in DOMAIN args : ~IsRaw(args[i])
       /\ WriteValue(target, bundle.builtins[f])
       /\ stack' = base
       /\ \/ /\ bundle.builtins[f] = Err
             /\ AddError("builtin") /\ code' = "Error"
          \/ /\ bundle.builtins[f] # Err
             /\ code' = "Continue" /\ UNCHANGED errors
       /\ UNCHANGED <<bundle, results, cache, counters, status>>
    \/ /\ ~OnCallStack(f) /\ f \in Functions \ DOMAIN bundle.builtins
       /\ CacheHit(f)
       /\ WriteNode(target, cache[f])
       /\ code' = IF ValueOf(cache[f]) = Err THEN "Error" ELSE "Continue"
       /\ stack' = base
       /\ UNCHANGED <<bundle, errors, results, cache, counters, status>>
    \/ /\ ~OnCallStack(f) /\ f \in Functions \ DOMAIN bundle.builtins
       /\ ~CacheHit(f)
       /\ \/ /\ Len(args) < Len(bundle.functions[f].params)
             /\ AddError("arity mismatch") /\ code' = "Error"
             /\ stack' = base
          \/ /\ Len(args) >= Len(bundle.functions[f].params)
             /\ stack' = Append(base, [kind |-> "bind", func |-> f, args |-> args,
                                       next |-> 3, target |-> target])
             /\ code' = "None" /\ UNCHANGED errors
       /\ UNCHANGED <<bundle, frame, heap, results, cache, counters, status>>

CallStmt ==
    /\ Executes({"Call"})
    /\ DoCall(stack, Stmt.func, Stmt.args, Stmt.target)

\* The loop that writes the parameters after input and data, one by one.
BindParam ==
    /\ Running("bind")
    /\ Top.next <= Len(bundle.functions[Top.func].params)
    /\ \/ /\ ~IsRaw(Top.args[Top.next])
          /\ WriteOperand(bundle.functions[Top.func].params[Top.next],
                          Top.args[Top.next])
          /\ stack' = Append(Below, [Top EXCEPT !.next = @ + 1])
          /\ UNCHANGED <<bundle, errors, results, cache, counters, code, status>>
       \/ /\ IsRaw(Top.args[Top.next])
          /\ Throw
    /\ UNCHANGED stmtCount

\* The depth guard and push_function.
\* Mutant: the function starts with an empty frame that nobody saved.
EnterFunctionClears ==
    /\ Running("bind")
    /\ Top.next > Len(bundle.functions[Top.func].params)
    /\ callStack' = Append(callStack,
           [name |-> Top.func, arity |-> bundle.functions[Top.func].arity])
    /\ stack' = Append(Below, [kind |-> "call", func |-> Top.func,
           blocks |-> bundle.functions[Top.func].blocks, next |-> 1,
           target |-> Top.target])
    /\ frame' = [l \in Locals |->
           IF l \in {0, 1} \cup {bundle.functions[Top.func].params[i] :
                                 i \in DOMAIN bundle.functions[Top.func].params}
           THEN frame[l] ELSE Null]
    /\ UNCHANGED <<bundle, heap, errors, results, cache, stmtCount, withCount,
                   breakCount, blockDepth, status, code>>
EnterFunction ==
    /\ Running("bind")
    /\ Top.next > Len(bundle.functions[Top.func].params)
    /\ \/ /\ Len(callStack) >= MaxCallDepth
          /\ AddError("rego_recursion_error")
          /\ Return("Error") /\ UNCHANGED callStack
       \/ /\ Len(callStack) < MaxCallDepth
          /\ callStack' = Append(callStack,
                 [name |-> Top.func, arity |-> bundle.functions[Top.func].arity])
          /\ stack' = Append(Below, [kind |-> "call", func |-> Top.func,
                 blocks |-> bundle.functions[Top.func].blocks, next |-> 1,
                 target |-> Top.target])
          /\ UNCHANGED <<errors, code>>
    /\ UNCHANGED <<bundle, frame, heap, results, cache, stmtCount, withCount,
                   breakCount, blockDepth, status>>

\* The loop over the blocks does not stop at a Timeout.
CallNext == NextBlock("call", {"Continue", "Undefined", "Timeout"})

\* A function without blocks leaves `Code code' uninitialized.
CallNoBlocks ==
    /\ Running("call") /\ code = "None" /\ Top.blocks = <<>>
    /\ code' \in Codes
    /\ UNCHANGED <<bundle, frame, heap, errors, results, cache, stmtCount,
                   counters, stack, status>>

PopFunction == callStack' = SubSeq(callStack, 1, Len(callStack) - 1)

\* Mutant: a result computed inside With is cached.
CachesInWith(f) == f.cacheable
Caches(f) == f.cacheable /\ withCount = 0

CallReturn ==
    /\ Running("call") /\ code = "Return"
    /\ PopFunction
    /\ LET f == bundle.functions[Top.func]
           n == frame[f.result]
       IN  /\ WriteNode(Top.target, n)
           /\ cache' = IF Caches(f)
                       THEN [cache EXCEPT ![Top.func] = n] ELSE cache
           /\ \/ /\ ValueOf(n) = Err
                 /\ AddError("function result") /\ Return("Error")
              \/ /\ ValueOf(n) # Err
                 /\ Return("Continue") /\ UNCHANGED errors
    /\ UNCHANGED <<bundle, results, stmtCount, withCount, breakCount,
                   blockDepth, status>>

CallFail ==
    /\ Running("call")
    /\ \/ code \in {"Break", "Error"}
       \/ code \in {"Continue", "Undefined", "Timeout"} /\ Top.next > Len(Top.blocks)
    /\ PopFunction
    /\ Return(IF code = "Break" THEN "Break" ELSE "Undefined")
    /\ UNCHANGED <<bundle, frame, heap, errors, results, cache, stmtCount,
                   withCount, breakCount, blockDepth, status>>

\* CallDynamic: the longest prefix of the path that names a function is
\* called, and the rest of the path is looked up in its result.
PrefixName(s, i) == <<"g0">> \o [j \in 1..i |-> KeyText(Unpack(s.path[j]))]
Prefixes(s) == {i \in DOMAIN s.path : PrefixName(s, i) \in Functions}

DynamicUndefined ==
    /\ Executes({"CallDynamic"}) /\ Prefixes(Stmt) = {}
    /\ Completes("Undefined") /\ UNCHANGED <<frame, heap, errors>>

DynamicCall ==
    /\ Executes({"CallDynamic"})
    /\ \E i \in Prefixes(Stmt) :
         /\ \A j \in Prefixes(Stmt) : j <= i
         /\ DoCall(Append(stack, [kind |-> "dynamic", target |-> Stmt.target,
                                  path |-> SubSeq(Stmt.path, i + 1, Len(Stmt.path))]),
                   PrefixName(Stmt, i), Stmt.args, Stmt.target)

DynamicDone ==
    /\ Running("dynamic") /\ code # "None"
    /\ LET keys == [i \in DOMAIN Top.path |-> Unpack(Top.path[i])]
           n == frame[Top.target]
           v == DotAll(ValueOf(n), keys)
       IN  \/ /\ code # "Continue" \/ Top.path = <<>>
              /\ Return(code) /\ UNCHANGED <<frame, heap>>
           \/ /\ code = "Continue" /\ Top.path # <<>> /\ v = Undef
              /\ Return("Undefined") /\ UNCHANGED <<frame, heap>>
           \/ /\ code = "Continue" /\ Top.path # <<>> /\ v # Undef
              /\ Return("Continue")
              /\ WriteItem(Top.target, n, StepsTo(ValueOf(n), keys), v)
    /\ UNCHANGED <<bundle, errors, results, cache, stmtCount, counters, status>>

-----------------------------------------------------------------------------
Straight == \/ Make \/ MeasureLen \/ Tests \/ ResetLocal \/ AssignVar
            \/ AssignVarOnce \/ ObjectInsert \/ ObjectMerge \/ Add \/ FillMalformed
            \/ DotStmt \/ ResultSetAdd \/ ReturnLocal \/ BreakStmt \/ DynamicUndefined
            \/ Timeout \/ RawOperand

Blocks == \/ PlanNext \/ PlanDone \/ NestNext \/ NestDone
          \/ BlockAdvance \/ BlockEnd \/ BlockExit \/ BlockBreak
          \/ BlockStmt \/ NotStmt \/ NotDone \/ WithStmt \/ WithCrash \/ WithDone
          \/ ScanStmt \/ ScanThrow \/ ScanNext \/ ScanDone

Calls == \/ CallStmt \/ BindParam \/ EnterFunction \/ CallNext \/ CallNoBlocks
         \/ CallReturn \/ CallFail \/ DynamicCall \/ DynamicDone

Next == Straight \/ Blocks \/ Calls \/ (status # "running" /\ UNCHANGED vars)

Spec == Init /\ [][Next]_vars
\* One thread runs the machine and every step of it is a step of that thread.
FairSpec == Spec /\ WF_vars(Next)

\* run_query and run_entrypoint look at the errors before the results.
Outcome == IF errors # <<>> THEN "errors"
           ELSE IF results = <<>> THEN "undefined" ELSE "results"

-----------------------------------------------------------------------------
(* Properties. *)

Node == 1..Len(heap)
Statuses == {"running", "done", "threw", "crashed", "malformed"}

\* An activation of bundle b that remembers no node outside `nodes'.
Activation(a, b, nodes) ==
    \/ a \in [kind : {"block"}, block : DOMAIN b.blocks, pc : Nat \ {0}]
    \/ a \in [kind : {"plan", "nest"}, blocks : Seq(DOMAIN b.blocks), next : Nat \ {0}]
    \/ a \in [kind : {"call"}, func : DOMAIN b.functions, target : LocalsOf(b),
              blocks : Seq(DOMAIN b.blocks), next : Nat \ {0}]
    \/ a \in [kind : {"with"}, target : LocalsOf(b), old : nodes \cup {Null}]
    \/ a \in [kind : {"not"}]
    \/ /\ a.kind = "bind"
       /\ a = [kind |-> "bind", func |-> a.func, args |-> a.args, next |-> a.next,
               target |-> a.target]
       /\ a.func \in DOMAIN b.functions /\ a.target \in LocalsOf(b)
       /\ a.next \in Nat \ {0, 1, 2}
       /\ IsSeq(a.args) /\ Len(a.args) >= Len(b.functions[a.func].params)
       /\ \A i \in DOMAIN a.args : OperandOK(a.args[i], b)
    \/ /\ a.kind = "scan"
       /\ a = [kind |-> "scan", source |-> a.source, seen |-> a.seen, key |-> a.key,
               value |-> a.value, block |-> a.block]
       /\ a.source \in nodes \cup {Null} /\ a.block \in DOMAIN b.blocks
       /\ a.key \in LocalsOf(b) /\ a.value \in LocalsOf(b)
    \/ /\ a.kind = "dynamic"
       /\ a = [kind |-> "dynamic", target |-> a.target, path |-> a.path]
       /\ a.target \in LocalsOf(b)
StackOK(s, b, nodes) ==
    /\ IsSeq(s) /\ Len(s) > 0
    /\ \A i \in DOMAIN s : Activation(s[i], b, nodes) /\ (s[i].kind = "plan" <=> i = 1)

\* The type of the machine's state; a node that a local, the cache, the result
\* set or a With remembers has been allocated.
TypeOK ==
    /\ IsSeq(heap)
    /\ frame \in [Locals -> Node \cup {Null}]
    /\ cache \in [Functions -> Node \cup {Null, NoEntry}]
    /\ results \in Seq(Node \cup {Null})
    /\ errors \in Seq(ErrorKinds)
    /\ callStack \in Seq([name : Functions, arity : Nat])
    /\ withCount \in Nat /\ stmtCount \in Nat /\ blockDepth \in Nat
    /\ breakCount \in 0..SizeMax
    /\ StackOK(stack, bundle, Node)
    /\ code \in Codes \cup {"None"} /\ status \in Statuses

\* m_block_depth, m_with_count and m_call_stack count the activations of
\* run_block, run_with and run_call that are on the C++ stack, in their order,
\* on every way of leaving a block, a With or a call.
Count(s, kind, n) == Cardinality({i \in 1..n : s[i].kind = kind})
CountersOK(s, blocks, withs, calls) ==
    /\ blocks = Count(s, "block", Len(s))
    /\ withs = Count(s, "with", Len(s))
    /\ Len(calls) = Count(s, "call", Len(s))
    /\ \A i \in DOMAIN s : s[i].kind = "call" =>
          calls[Count(s, "call", i)].name = s[i].func
CountersMatchStack == CountersOK(stack, blockDepth, withCount, callStack)

\* The depth limits bound the C++ stack, and no function is active twice (all
\* functions share one frame, a second activation would overwrite the first).
LimitsRespected ==
    /\ blockDepth <= MaxBlockDepth
    /\ Len(callStack) <= MaxCallDepth
    /\ \A i, j \in DOMAIN callStack :
          callStack[i].name = callStack[j].name => i = j

\* An Error or Timeout on its way up the stack has left an error behind, so
\* the caller is told of it even if an enclosing call turns it to Undefined.
ErrorsRecorded ==
    status = "running" /\ code \in {"Error", "Timeout"} => errors # <<>>

\* What every bundle that rego_to_bundle makes is like: a function has a block
\* (one without returns whatever its variable `code' holds, see CallNoBlocks).
FunctionsHaveBlocks(b) == \A f \in DOMAIN b.functions : b.functions[f].blocks # <<>>

\* Once the statement limit is reached no statement has an effect any more,
\* though a scan outside the function that reached it still binds its items: no
\* existing node is changed, nothing is cached or returned as a result.
FrozenAtLimit ==
    [][stmtCount >= StmtLimit => /\ UNCHANGED <<results, cache>>
                                 /\ \A n \in DOMAIN heap : heap'[n] = heap[n]]_vars

\* The assertion of pop_break: "op0.index = blocks to break out of"
\* (verify_stmt), so a block left by a Break still has a level to leave.
BreakAssertHolds == Running("block") /\ code = "Break" => breakCount > 0

\* Every run ends.
Terminates == <>(status # "running")
=============================================================================
