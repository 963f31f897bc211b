------------------------------ MODULE RegoEval ------------------------------
(***************************************************************************)
(* What running a bundle means: the reference the machine of RegoVM is     *)
(* compared with.  Locals hold values, not shared nodes; a call has a      *)
(* frame of its own; nothing is cached; there are no limits.  The codes    *)
(* are those of run_block, run_stmt, run_call, run_with and run_scan in    *)
(* src/virtual_machine.cc.                                                 *)
(***************************************************************************)
EXTENDS RegoVM

-----------------------------------------------------------------------------
\* merge_objects: two objects are merged key by key, two sets are united, a
\* value that is neither gives way to the left one only if both are neither.
MaxMergeDepth == 256
RECURSIVE MergeAt(_, _, _)
MergeAt(a, b, depth) ==
    CASE depth >= MaxMergeDepth -> Err
      [] ~Mergeable(a) /\ ~Mergeable(b) -> a
      [] Tag(a) = "set" /\ Tag(b) = "set" -> <<"set", a[2] \cup b[2]>>
      [] Tag(a) = "object" /\ Tag(b) = "object" ->
           LET m == [k \in DOMAIN a[2] \cup DOMAIN b[2] |->
                        IF k \notin DOMAIN b[2] THEN a[2][k]
                        ELSE IF k \notin DOMAIN a[2] THEN b[2][k]
                        ELSE MergeAt(a[2][k], b[2][k], depth + 1)]
           IN  IF \E k \in DOMAIN m : m[k] = Err THEN Err ELSE <<"object", m>>
      [] OTHER -> Err
MergeObjects(a, b) == MergeAt(a, b, 0)

-----------------------------------------------------------------------------
\* A state of the evaluation: the frame, whether an error was recorded, the
\* result set.  An evaluation step yields a code and a state.
Yield(c, st) == [code |-> c, st |-> st]
SetLocal(st, l, v) == [st EXCEPT !.frame[l] = v]
Get(st, op) == IF IsLocal(op) THEN st.frame[op[2]] ELSE op[2]
Fail(st) == Yield("Error", [st EXCEPT !.failed = TRUE])
TestOf(st, b) == Yield(IF b THEN "Continue" ELSE "Undefined", st)

\* Statements that run no block and no function.
EvalData(st, s) ==
    LET a == Get(st, s.op0)
        b == Get(st, s.op1)
        t == st.frame[s.target]
        known == Undef \notin {a, b}
        Into(v) == Yield("Continue", SetLocal(st, s.target, v))
    IN
    CASE s.type \in {"MakeObject", "MakeArray", "MakeSet", "MakeNull",
                     "MakeNumberRef", "MakeNumberInt", "AssignInt"} -> Into(NewValue(s))
      [] s.type = "Len" -> Into(<<"int", Cardinality(KeysOf(a))>>)
      [] s.type = "IsObject" -> TestOf(st, Tag(a) = "object")
      [] s.type = "IsArray" -> TestOf(st, Tag(a) = "array")
      [] s.type = "IsSet" -> TestOf(st, Tag(a) = "set")
      [] s.type = "IsDefined" -> TestOf(st, t # Undef)
      [] s.type = "IsUndefined" -> TestOf(st, t = Undef)
      [] s.type = "Equal" -> TestOf(st, known /\ (a = b \/ Err \in {a, b}))
      [] s.type = "NotEqual" -> TestOf(st, known /\ (a # b \/ Err \in {a, b}))
      [] s.type = "ResetLocal" -> Into(Undef)
      [] s.type = "AssignVar" -> Into(a)
      [] s.type = "AssignVarOnce" /\ a \in {Undef, t} -> Yield("Continue", st)
      [] s.type = "AssignVarOnce" /\ t = Undef -> Into(a)
      [] s.type \in {"ObjectInsert", "ObjectInsertOnce"} /\ Tag(t) = "object"
         /\ (s.type = "ObjectInsert" \/ Dot(t, a) \in {Undef, b}) ->
            Into(Put(t, ToTerm(a), ToTerm(b)))
      [] s.type \in {"AssignVarOnce", "ObjectInsert", "ObjectInsertOnce"} -> Fail(st)
      [] s.type = "ObjectMerge" -> Into(Merge(a, b))
      [] s.type \in {"ArrayAppend", "SetAdd"} ->
            IF a = Undef THEN Yield("Undefined", st) ELSE Into(Added(t, a))
      [] s.type = "Dot" ->
            IF Dot(a, b) = Undef THEN Yield("Undefined", st) ELSE Into(Dot(a, b))
      [] s.type = "ResultSetAdd" ->
            Yield("Continue", [st EXCEPT !.results = Append(@, t)])
      [] s.type = "ReturnLocal" -> Yield("Return", st)
      [] s.type = "Break" -> Yield("Break", st)
      [] OTHER -> Yield("Continue", st)

RECURSIVE EvalBlocks(_, _, _, _, _), EvalFrom(_, _, _, _, _), EvalStmt(_, _, _, _),
          EvalScan(_, _, _, _, _, _), EvalCall(_, _, _, _, _, _)

\* The blocks bs one after the other while the code is one of `go'.
EvalBlocks(p, calls, st, bs, go) ==
    IF bs = <<>> THEN Yield("Continue", st)
    ELSE LET r == EvalFrom(p, calls, st, bs[1], 1)
         IN  IF r.code \in go /\ Len(bs) > 1
             THEN EvalBlocks(p, calls, r.st, Tail(bs), go) ELSE r

\* Block b from its i-th statement.
EvalFrom(p, calls, st, b, i) ==
    IF i > Len(p.blocks[b]) THEN Yield("Continue", st)
    ELSE LET r == EvalStmt(p, calls, st, p.blocks[b][i])
         IN  IF r.code = "Continue" THEN EvalFrom(p, calls, r.st, b, i + 1) ELSE r

\* One iteration per key of the source, read again each time.
EvalScan(p, calls, st, s, source, seen) ==
    LET left == KeysOf(source) \ seen
        k == IF Tag(source) = "array" THEN <<"int", Cardinality(seen)>>
             ELSE CHOOSE x \in left : TRUE
        bound == SetLocal(SetLocal(st, s.op0[2], k), s.op1[2], ItemAt(source, k))
        r == EvalFrom(p, calls, bound, s.blocks[1], 1)
    IN  IF left = {} THEN Yield("Continue", st)
        ELSE IF r.code \in {"Continue", "Undefined"}
             THEN EvalScan(p, calls, r.st, s, source, seen \cup {k}) ELSE r

\* A call runs in a frame that holds input, data and the arguments only.
EvalCall(p, calls, st, f, args, target) ==
    IF f \in calls \/ f \notin DOMAIN p.builtins \cup DOMAIN p.functions
    THEN Yield("Threw", st)
    ELSE IF f \in DOMAIN p.builtins
    THEN LET out == SetLocal(st, target, p.builtins[f])
         IN  IF p.builtins[f] = Err THEN Fail(out) ELSE Yield("Continue", out)
    ELSE LET fn == p.functions[f]
             arg(l) == {i \in 3..Len(fn.params) : fn.params[i] = l}
             callee == [st EXCEPT !.frame = [l \in DOMAIN @ |->
                          IF l \in {0, 1} THEN @[l]
                          ELSE IF arg(l) = {} THEN Undef
                          ELSE Get(st, args[CHOOSE i \in arg(l) : TRUE])]]
             r == EvalBlocks(p, calls \cup {f}, callee, fn.blocks,
                             {"Continue", "Undefined"})
             back == [r.st EXCEPT !.frame = st.frame]
             v == r.st.frame[fn.result]
         IN  CASE Len(args) < Len(fn.params) -> Fail(st)
               [] r.code = "Threw" -> r
               [] r.code = "Return" ->
                    IF v = Err THEN Fail(SetLocal(back, target, v))
                    ELSE Yield("Continue", SetLocal(back, target, v))
               [] r.code = "Break" -> Yield("Break", back)
               [] OTHER -> Yield("Undefined", back)

EvalStmt(p, calls, st, s) ==
    CASE s.type = "Block" ->
           LET r == EvalBlocks(p, calls, st, s.blocks, {"Continue", "Undefined"})
           IN  IF r.code = "Undefined" THEN Yield("Continue", r.st) ELSE r
      [] s.type = "Not" ->
           LET r == EvalFrom(p, calls, st, s.blocks[1], 1)
           IN  Yield(CASE r.code \in {"Error", "Threw"} -> r.code
                       [] r.code = "Undefined" -> "Continue"
                       [] OTHER -> "Undefined", r.st)
      [] s.type = "With" ->
           LET old == st.frame[s.target]
               in == SetLocal(st, s.target, SetPath(old, s.path, Get(st, s.op0)))
               r == EvalFrom(p, calls, in, s.blocks[1], 1)
           IN  Yield(r.code, SetLocal(r.st, s.target, old))
      [] s.type = "Scan" ->
           IF Tag(st.frame[s.target]) \in Scalars THEN Yield("Undefined", st)
           ELSE IF st.frame[s.target] = Err THEN Yield("Threw", st)
           ELSE EvalScan(p, calls, st, s, st.frame[s.target], {})
      [] s.type = "Call" -> EvalCall(p, calls, st, s.func, s.args, s.target)
      [] s.type = "CallDynamic" ->
           LET name(i) == <<"g0">> \o [j \in 1..i |-> KeyText(Get(st, s.path[j]))]
               ok == {i \in DOMAIN s.path : name(i) \in DOMAIN p.functions}
               n == CHOOSE i \in ok : \A j \in ok : j <= i
               rest == SubSeq(s.path, n + 1, Len(s.path))
               r == EvalCall(p, calls, st, name(n), s.args, s.target)
               v == DotAll(r.st.frame[s.target],
                           [i \in DOMAIN rest |-> Get(r.st, rest[i])])
           IN  IF ok = {} THEN Yield("Undefined", st)
               ELSE IF r.code # "Continue" \/ rest = <<>> THEN r
               ELSE IF v = Undef THEN Yield("Undefined", r.st)
               ELSE Yield("Continue", SetLocal(r.st, s.target, v))
      [] OTHER -> EvalData(st, s)

\* What a run of bundle p on an input shows to its caller.
Meaning(p, input) ==
    LET st == [frame |-> [l \in 0..(p.local_count - 1) |->
                             IF l = 0 THEN input ELSE IF l = 1 THEN p.data ELSE Undef],
               failed |-> FALSE, results |-> <<>>]
        r == EvalBlocks(p, {}, st, p.plan, {"Continue"})
    IN  IF r.code = "Threw" THEN <<"threw">>
        ELSE IF r.st.failed THEN <<"errors">> ELSE <<"results", r.st.results>>
=============================================================================
