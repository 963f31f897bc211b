----------------------------- MODULE RegoVMTrace -----------------------------
(***************************************************************************)
(* RegoVM with a history variable.  entry[i] is what the machine looked    *)
(* like when the activation stack[i] was pushed, so that the effect of a   *)
(* whole call, negation or With can be compared with the state before it.  *)
(***************************************************************************)
EXTENDS RegoVM

VARIABLE entry

traceVars == <<vars, entry>>

Snapshot == [values |-> [l \in Locals |-> Read(l)], nodes |-> frame,
             errors |-> Len(errors)]

TraceInit == Init /\ entry = <<Snapshot>>

TraceNext ==
    /\ Next
    /\ entry' = [i \in 1..Len(stack') |->
                    IF i <= Len(stack) THEN entry[i] ELSE Snapshot]

TraceSpec == TraceInit /\ [][TraceNext]_traceVars
FairTraceSpec == TraceSpec /\ WF_traceVars(TraceNext)

-----------------------------------------------------------------------------
(* The locals that the text of a function, or of the plan, mentions. *)

Children(b) == UNION {{Body(b)[i].blocks[j] : j \in DOMAIN Body(b)[i].blocks} :
                      i \in DOMAIN Body(b)}
Reach(bs) ==
    LET r[n \in 0..Len(bundle.blocks)] ==
            IF n = 0 THEN {bs[i] : i \in DOMAIN bs}
            ELSE LET s == r[n - 1] IN s \cup UNION {Children(b) : b \in s}
    IN  r[Len(bundle.blocks)]

LocalOf(op) == IF IsLocal(op) THEN {op[2]} ELSE {}
Mentioned(s) == {s.target} \cup LocalOf(s.op0) \cup LocalOf(s.op1)
                \cup (UNION {LocalOf(s.args[i]) : i \in DOMAIN s.args})
                \cup (IF s.type = "Scan" THEN {s.op0[2], s.op1[2]} ELSE {})
LocalsIn(bs) == UNION {UNION {Mentioned(Body(b)[i]) : i \in DOMAIN Body(b)} : b \in Reach(bs)}

\* The locals of whoever made the call that is about to end: the function
\* below it on the call stack, or the plan.
CallerLocals ==
    LET caller == IF Len(callStack) = 1 THEN bundle.plan
                  ELSE bundle.functions[callStack[Len(callStack) - 1].name].blocks
    IN  LocalsIn(caller) \ {0, 1}

Ends(kind) == Top.kind = kind /\ Len(stack') < Len(stack)
AtEntry == entry[Len(stack)]

-----------------------------------------------------------------------------
(* How rego_to_bundle lays out the locals, as far as input and data go.    *)

Documents == {0, 1}     \* the locals of input and data

StatementsOf(b) ==
    UNION {{b.blocks[i][j] : j \in DOMAIN b.blocks[i]} : i \in DOMAIN b.blocks}

\* The locals that hold a container while it is being filled.
Builders(b) == {s.target : s \in {t \in StatementsOf(b) : t.type \in Fillers}}

\* Only a With replaces a document, and a local that is filled in place receives
\* no node that existed before but from a merge or from another such local, as
\* the result of a rule that has documents below it does.
DocumentsApart(b) ==
    LET builders == Builders(b) IN
    /\ Documents \subseteq LocalsOf(b) \ builders
    /\ \A s \in StatementsOf(b) :
         /\ s.type \in {"MakeObject", "MakeArray", "MakeSet", "MakeNull", "MakeNumberRef",
                        "MakeNumberInt", "AssignInt", "Len", "ResetLocal", "AssignVar",
                        "AssignVarOnce", "ObjectMerge", "Dot", "Call", "CallDynamic"}
              => s.target \notin Documents
         /\ s.type \in {"AssignVarOnce", "Dot", "Call", "CallDynamic", "With"}
              => s.target \notin builders
         /\ s.type = "AssignVar" /\ s.target \in builders /\ IsLocal(s.op0)
              => s.op0[2] \in builders
         /\ s.type = "Scan" => s.op0[2] \notin Documents \cup builders
                              /\ s.op1[2] \notin Documents \cup builders
    /\ \A f \in DOMAIN b.functions : \A i \in DOMAIN b.functions[f].params :
         i > 2 => b.functions[f].params[i] \notin Documents \cup builders

-----------------------------------------------------------------------------
(* Properties. *)

\* m_frame is shared by all functions of a run, yet a call changes no local of
\* its caller but the one that receives the result: neither the node it holds
\* nor the value of that node (run_call, run_block and every statement that
\* writes a local or mutates a node in place).
CallKeepsCallerLocals ==
    [][Ends("call") =>
          \A l \in CallerLocals \ {Top.target} :
             /\ frame'[l] = AtEntry.nodes[l]
             /\ Read(l)' = AtEntry.values[l]]_traceVars

\* Outside every With, input and data are what the run started with, however
\* the With blocks before were left (run_with, write_and_swap).
DocumentsRestored ==
    (\A i \in DOMAIN stack : stack[i].kind # "with") =>
        Read(0) = entry[1].values[0] /\ Read(1) = entry[1].values[1]

\* The input and the data that a run was given are never changed in place: dot
\* and run_scan hand out their own nodes, a With keeps them while it replaces
\* them, and the next query of the interpreter reads the same data (State,
\* write_and_swap, insert_into_object, ArrayAppend, SetAdd).
DocumentsKept ==
    [][\A l \in Documents : /\ entry'[1].nodes[l] = entry[1].nodes[l]
                            /\ ValueOf(entry[1].nodes[l])' = ValueOf(entry[1].nodes[l])]_traceVars

\* A cached result is final: the entry is never replaced and the node it holds
\* is never changed in place by code that shares it (put_function_result,
\* ArrayAppend, SetAdd, ObjectInsert).
CachedResultsFrozen ==
    [][\A f \in Functions : cache[f] # NoEntry =>
          cache'[f] = cache[f] /\ ValueOf(cache[f])' = ValueOf(cache[f])]_traceVars

\* A negation succeeds only when its body is undefined, not because its body
\* failed: "Propagate genuine errors (including strict-mode builtin errors)
\* and timeouts instead of treating them as a failed negation".
NotPropagatesErrors ==
    [][Ends("not") /\ code' = "Continue" => Len(errors) = AtEntry.errors]_traceVars
=============================================================================
