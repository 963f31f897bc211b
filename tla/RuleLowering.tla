---------------------------- MODULE RuleLowering ----------------------------
(***************************************************************************)
(* From rules to a bundle: the passes lift_functions, with_rules,          *)
(* add_plans and index_strings_locals of src/rego_to_bundle.cc.  Policies  *)
(* and names are those of ExprLowering; the result is a bundle of RegoVM.  *)
(***************************************************************************)
EXTENDS ExprLowering
LOCAL INSTANCE SequencesExt
LOCAL INSTANCE FiniteSetsExt

-----------------------------------------------------------------------------
(* Bodies of rules. *)

\* The i-th definition with its terms and queries lowered: the operands of its
\* keys, and for every branch the operand of the value and the bodies.
Lowered(p, i) ==
    LET d == p.rules[i]
        branch(one, c) ==
            [val |-> Term(p, one.val, <<i, c, 0>>),
             bodies |-> Each(Len(one.queries), LAMBDA q : BodyBlock(p, one.queries[q], <<i, c, q>>))]
    IN  [at |-> <<i>>, kind |-> d.kind, path |-> d.path, default |-> d.default, key |-> d.keys,
         keys |-> Each(Len(d.keys), LAMBDA k : Term(p, d.keys[k], <<i, 0, k>>)),
         chain |-> Each(Len(d.chain), LAMBDA c : branch(d.chain[c], c))]

\* check_operand_is_defined.
Defined(op) == IF op[1] = "local" /\ ~(IsFresh(op[2]) /\ op[2][1] \in {"number", "null"})
               THEN <<S("IsDefined", op[2])>> ELSE <<>>
AssignOnce(op, name) == S0("AssignVarOnce", name, op)

\* _body_block_add: the value of a definition where its query holds.
BodyAdd(before, val, body, name) ==
    AtInner(before \o val.code \o body, TRUE, Append(Defined(val.op), AssignOnce(val.op, name)))

\* The blocks of a body and its else branches, which give `name' its value: a
\* body is tried unless one before it gave a value.
Unless(k, name) == IF k > 1 THEN <<S("IsUndefined", name)>> ELSE <<>>
Bodies(before, one, name) ==
    IF Len(one.bodies) = 1 THEN BodyAdd(before, one.val, one.bodies[1], name)
    ELSE Append(before, SB("Block", Each(Len(one.bodies), LAMBDA q :
                            BodyAdd(Unless(q, name), one.val, one.bodies[q], name))))
\* Mutant: an else branch is tried although the body before it gave a value.
BranchesAllTried(chain, name) == Each(Len(chain), LAMBDA c : Bodies(<<>>, chain[c], name))
Branches(chain, name) == Each(Len(chain), LAMBDA c : Bodies(Unless(c, name), chain[c], name))

\* body_block: with else branches the value goes through a local of its own.
ValueBlock(x, ret) ==
    LET own == Fresh("bodyval", x.at)
    IN  SB("Block", IF Len(x.chain) = 1 THEN Branches(x.chain, ret)
                    ELSE << <<S("ResetLocal", own)>> >> \o Branches(x.chain, own)
                         \o << <<S("IsDefined", own), AssignOnce(L(own), ret)>> >>)

\* bodyset_block.
SetBlock(one, ret) ==
    SB("Block", Each(Len(one.bodies), LAMBDA q :
        AtInner(one.val.code \o one.bodies[q], TRUE,
                Append(Defined(one.val.op), S0("SetAdd", ret, one.val.op)))))

\* bodyobjstatic_block: `own' is shared by the definitions of one key.
ObjectBlock(x, own, ret) ==
    SB("Block", <<x.keys[1].code>> \o Branches(x.chain, own)
          \o << <<S("IsDefined", own), S1("ObjectInsertOnce", ret, x.keys[1].op, L(own))>> >>)

\* bodyobjdynamic_block and bodysetdynamic_block: the objects on the way to the
\* last key are made if they are not there, and put back from the inside.
NestedBlock(x, one, ret) ==
    LET n == Len(x.keys)
        isset == x.kind = "setdyn"
        key(k) == x.keys[k].op
        name(k, q) == IF k = 0 THEN ret
                      ELSE Fresh(IF k = n THEN "set" ELSE "child", x.at \o <<q, k>>)
        make(k, child) == S(IF k = n THEN "MakeSet" ELSE "MakeObject", child)
        reach(k, parent, child) == SB("Block",
            << <<S("ResetLocal", child)>>, <<S1("Dot", child, L(parent), key(k))>>,
               <<S("IsUndefined", child), make(k, child)>> >>)
        putBack(k, q) == S1("ObjectInsert", name(k - 1, q), key(k), L(name(k, q)))
        insert(q) == Each(n - 1, LAMBDA k : reach(k, name(k - 1, q), name(k, q)))
            \o (IF isset THEN << reach(n, name(n - 1, q), name(n, q)),
                                 S0("SetAdd", name(n, q), one.val.op), putBack(n, q) >>
                ELSE <<S1("ObjectInsertOnce", name(n - 1, q), key(n), one.val.op)>>)
            \o Each(n - 1, LAMBDA k : putBack(n - k, q))
    IN  SB("Block", Each(Len(one.bodies), LAMBDA q :
            AtInner(one.val.code \o CodeOf(x.keys) \o one.bodies[q], TRUE, insert(q))))

-----------------------------------------------------------------------------
(* Functions: one for all definitions of a path. *)

IsObjectRule(kind) == kind \in {"obj", "objdyn", "setdyn"}

\* A partial rule starts empty, an object one with the documents below it
\* (rule_ident_to_body).
Start(p, d, at, ret) ==
    LET doc == Fresh("doc", at)
    IN  <<S("ResetLocal", ret)>> \o
        CASE IsObjectRule(d.kind) /\ DocAt(p, d.path) ->
               <<S("MakeObject", doc), DocumentStmt(p, d.path, doc, <<>>, 0, at),
                 S0("AssignVar", ret, L(doc))>>
          [] IsObjectRule(d.kind) /\ ~DocAt(p, d.path) -> <<S("MakeObject", ret)>>
          [] d.kind = "set" -> <<S("MakeSet", ret)>>
          [] OTHER -> <<>>

\* The blocks of the j-th of the definitions of a path.
KeyedBlocks(xs, j, k, ret) ==
    LET own == Fresh("bodyobj", xs[k].at)
    IN  (IF j = k THEN << <<S("ResetLocal", own)>> >> ELSE <<>>)
        \o << <<ObjectBlock(xs[j], own, ret)>> >>
BlocksOf(xs, j, ret) ==
    LET x == xs[j]
    IN  CASE x.default -> <<>>
          [] ~x.default /\ x.kind = "obj" ->
               KeyedBlocks(xs, j, SelectInSeq(xs, LAMBDA y : y.key = x.key), ret)
          [] x.kind \in {"objdyn", "setdyn"} -> << <<NestedBlock(x, x.chain[1], ret)>> >>
          [] x.kind = "set" -> << <<SetBlock(x.chain[1], ret)>> >>
          [] OTHER -> << <<ValueBlock(x, ret)>> >>

\* The default gives a value when no other definition does.
DefaultBlock(x, ret) ==
    IF ~x.default THEN <<>>
    ELSE << <<S("IsUndefined", ret)>> \o x.chain[1].val.code \o x.chain[1].bodies[1]
            \o <<AssignOnce(x.chain[1].val.op, ret)>> >>

\* The documents are not passed to built-ins.
RECURSIVE NoDocuments(_)
NoDocuments(code) ==
    Each(Len(code), LAMBDA i :
        [code[i] EXCEPT !.args = IF code[i].type = "Call" /\ code[i].func[1] # "g0"
                                 THEN SubSeq(@, 3, Len(@)) ELSE @,
                        !.blocks = Each(Len(@), LAMBDA b : NoDocuments(@[b]))])

Function(p, xs, ret) ==
    << Start(p, xs[1], xs[1].at, ret) >>
    \o Joined(Len(xs), LAMBDA j : BlocksOf(xs, j, ret))
    \o Joined(Len(xs), LAMBDA j : DefaultBlock(xs[j], ret))
    \o << <<S("IsDefined", ret), S("ReturnLocal", ret)>> >>
\* The function of the path of the i-th definition, and of all the paths.
FunctionOf(p, i, ret) ==
    LET d == p.rules[i]
        defs == SelectSeq(Each(Len(p.rules), LAMBDA j : j), LAMBDA j : p.rules[j].path = d.path)
        stripped(blocks) == Each(Len(blocks), LAMBDA b : NoDocuments(blocks[b]))
    IN  [name |-> <<"g0">> \o d.path,
         params |-> <<Input, Data>> \o Each(Len(d.params), LAMBDA k : <<d.params[k]>>), ret |-> ret,
         blocks |-> stripped(Function(p, Each(Len(defs), LAMBDA j : Lowered(p, defs[j])), ret))]
IsFirst(p, i) == \A j \in RulesAt(p, p.rules[i].path) : i <= j
FunctionsAt(p, is) == Each(Len(is), LAMBDA k : FunctionOf(p, is[k], Fresh("return", <<is[k]>>)))
Templates(p) == FunctionsAt(p, SelectSeq(Each(Len(p.rules), LAMBDA i : i), LAMBDA i : IsFirst(p, i)))

-----------------------------------------------------------------------------
(* with_rules: a function called under a With is cloned if it calls        *)
(* something, and the calls in the clone are replaced or take the With     *)
(* along (struct WithInfo).                                                *)

NoInfo == [withs |-> <<>>, repl |-> <<>>, args |-> <<>>]
IsWithArg(name) == IsFresh(name) /\ name[1] = "witharg"

\* The Withs of a call: a local of the caller becomes a parameter of the clone.
Named(s) == Each(Len(s.withs), LAMBDA i :
                LET w == s.withs[i]
                IN  IF w.t = "local" /\ ~IsWithArg(w.op[2])
                    THEN [w EXCEPT !.op = L(Fresh("witharg", Append(Tail(s.target), i)))] ELSE w)
\* What takes the place of the key of a With.
Replacement(w, at) ==
    LET read(walk) == [key |-> w.key, t |-> "value", op |-> L(walk.name), code |-> walk.code]
    IN  CASE w.t = "func"  -> w
          [] w.t = "local" -> [key |-> w.key, t |-> "value", op |-> w.op, code |-> <<>>]
          [] w.t = "block" /\ w.key[1] = "data" -> read(Walk(w.key, "with", at, <<>>))
          [] OTHER -> [w EXCEPT !.t = "value"]
\* WithInfo::update.  A local that is the value of two Withs is passed once.
Passed(withs, named) ==
    LET is == SelectSeq(Each(Len(named), LAMBDA i : i), LAMBDA i :
                  /\ named[i] # withs[i]
                  /\ \A j \in DOMAIN named : j > i /\ named[j].t = "local"
                                             => withs[j].op # withs[i].op)
    IN  Each(Len(is), LAMBDA i : [local |-> withs[is[i]].op[2], arg |-> named[is[i]].op[2]])
Updated(info, s, named) ==
    [withs |-> named,
     repl |-> info.repl \o Each(Len(named), LAMBDA i :
                 Replacement(named[i], Append(Tail(s.target), i))),
     args |-> Passed(s.withs, named)
              \o Each(Len(info.args), LAMBDA i : [local |-> info.args[i].arg,
                                                  arg |-> info.args[i].arg])]
InfoOf(info, s) == Updated(info, s, Named(s))

\* The code of a clone: a call is replaced, or it inherits the Withs.
RECURSIVE Inherit(_, _), HasCall(_), Resolve(_, _, _, _), Clones(_, _, _, _)
Inherit(code, info) ==
    LET documents(f, args) == IF f[1] = "g0" THEN Documents \o args ELSE args
        args(s) == IF s.func[1] = "g0" THEN SubSeq(s.args, 3, Len(s.args)) ELSE s.args
        call(s, f) == << [s EXCEPT !.func = f, !.args = documents(f, args(s))] >>
        one(s, by) ==
          CASE s.type = "Call" /\ by # <<>> /\ Last(by).t = "value" ->
                 Append(Last(by).code, S0("AssignVar", s.target, Last(by).op))
            [] s.type = "Call" /\ by # <<>> /\ Last(by).t # "value" ->
                 call(s, ToFunc(Last(by).func))
            [] s.type = "Call" /\ by = <<>> /\ s.func[1] = "g0" ->
                 << [s EXCEPT !.type = "WithCall"] @@ [withs |-> info.withs] >>
            [] OTHER -> << [s EXCEPT !.blocks = Each(Len(@), LAMBDA i : Inherit(@[i], info))] >>
    IN  Joined(Len(code), LAMBDA i :
            one(code[i], SelectSeq(info.repl, LAMBDA w : w.key = Called(code[i]))))

\* contains_callstmt, which does not know WithCall.
HasCall(code) == \E i \in DOMAIN code :
                     \/ code[i].type = "Call"
                     \/ \E b \in DOMAIN code[i].blocks : HasCall(code[i].blocks[b])
Cloned(ts, s) == LET t == CHOOSE t \in Range(ts) : t.name = s.func
                 IN  \E b \in DOMAIN t.blocks : HasCall(t.blocks[b])
CloneName(caller, s) == <<"g" \o ToString(<<caller[1], s.target>>)>> \o Tail(s.func)

\* The calls of a function under a With become calls of the clones.
Resolve(ts, name, code, info) ==
    LET locals(args) == Each(Len(args), LAMBDA k : L(args[k].local))
        one(s) ==
          CASE s.type = "WithCall" /\ Cloned(ts, s) ->
                 CallFn(CloneName(name, s), s.args \o locals(InfoOf(info, s).args), s.target)
            [] s.type = "WithCall" /\ ~Cloned(ts, s) -> CallFn(s.func, s.args, s.target)
            [] OTHER -> [s EXCEPT !.blocks = Each(Len(@), LAMBDA b : Resolve(ts, name, @[b], info))]
    IN  Each(Len(code), LAMBDA i : one(code[i]))
\* The clones that the code of a function calls, and those they call.
Clone(ts, t, name, blocks, in) ==
    <<[t EXCEPT !.name = name, !.params = @ \o Each(Len(in.args), LAMBDA k : in.args[k].arg),
                !.blocks = Each(Len(@), LAMBDA b : Resolve(ts, name, blocks[b], in))]>>
    \o Joined(Len(blocks), LAMBDA b : Clones(ts, name, blocks[b], in))
CloneOf(ts, t, name, in) ==
    Clone(ts, t, name, Each(Len(t.blocks), LAMBDA b : Inherit(t.blocks[b], in)), in)
Clones(ts, name, code, info) ==
    LET one(s) == IF s.type = "WithCall" /\ Cloned(ts, s)
                  THEN CloneOf(ts, CHOOSE t \in Range(ts) : t.name = s.func, CloneName(name, s),
                               InfoOf(info, s))
                  ELSE Joined(Len(s.blocks), LAMBDA b : Clones(ts, name, s.blocks[b], info))
    IN  Joined(Len(code), LAMBDA i : one(code[i]))
WithRules(ts) ==
    Joined(Len(ts), LAMBDA k :
        <<[ts[k] EXCEPT !.blocks = Each(Len(@), LAMBDA b : Resolve(ts, ts[k].name, @[b], NoInfo))]>>
        \o Joined(Len(ts[k].blocks), LAMBDA b : Clones(ts, ts[k].name, ts[k].blocks[b], NoInfo)))

-----------------------------------------------------------------------------
(* add_plans and index_strings_locals. *)

PlanOf(p) ==
    LET obj == Fresh("obj", <<0>>)
        of(v) == << v.code, <<S("MakeObject", obj), S("IsDefined", v.op[2]),
                              S1("ObjectInsert", obj, V(Str("result")), v.op), S("ResultSetAdd", obj)>> >>
    IN  of(DataRef(p, [args |-> p.entry], <<0>>))

\* A variable of the source is a local of its function, a fresh name is itself.
Unique(name, f) == IF name \in {Input, Data} \/ IsFresh(name) THEN name
                   ELSE <<name[1] \o "@" \o ToString(f)>>
NoTarget == {"Block", "Not", "Equal", "NotEqual", "IsArray", "IsObject", "IsSet"}
NameOf(op) == IF op[1] = "local" THEN {op[2]} ELSE {}
RECURSIVE NamesIn(_), SizeAll(_), EmitAll(_, _, _)
NamesIn(code) ==
    UNION {LET s == code[i]
           IN  (IF s.type \in NoTarget THEN {} ELSE {s.target})
               \cup (IF s.type = "Scan" THEN {s.op0[2], s.op1[2]}
                     ELSE NameOf(s.op0) \cup NameOf(s.op1))
               \cup UNION {NameOf(s.args[k]) : k \in DOMAIN s.args}
               \cup (IF s.type = "With" THEN {} ELSE UNION {NameOf(s.path[k]) : k \in DOMAIN s.path})
               \cup UNION {NamesIn(s.blocks[b]) : b \in DOMAIN s.blocks} : i \in DOMAIN code}

\* Every name becomes its index, and a block in a statement becomes its place
\* in the blocks of the bundle: those of a block from n + 1 on, itself last.
Operand(op, index) == IF op[1] = "local" THEN L(index[op[2]]) ELSE op
Slot(op, s, index) == IF s.type = "Scan" THEN R(index[op[2]]) ELSE Operand(op, index)
Nested(code) == Joined(Len(code), LAMBDA i : code[i].blocks)
SizeAll(blocks) == MapThenSumSet(LAMBDA b : 1 + SizeAll(Nested(blocks[b])), DOMAIN blocks)
Indexed(code, n, index) ==
    Each(Len(code), LAMBDA i :
        LET s == code[i]
            before == n + SizeAll(Nested(SubSeq(code, 1, i - 1)))
        IN  [s EXCEPT !.target = IF s.type \in NoTarget THEN 0 ELSE index[@],
                      !.op0 = Slot(@, s, index), !.op1 = Slot(@, s, index),
                      !.args = Each(Len(@), LAMBDA k : Operand(@[k], index)),
                      !.path = Each(Len(@), LAMBDA k : IF s.type = "With" THEN @[k]
                                                   ELSE Operand(@[k], index)),
                      !.blocks = Each(Len(@), LAMBDA b : before + SizeAll(SubSeq(@, 1, b)))])
Emit(code, n, index) ==
    Append(EmitAll(Nested(code), n, index), Indexed(code, n, index))
EmitAll(blocks, n, index) ==
    Joined(Len(blocks), LAMBDA b : Emit(blocks[b], n + SizeAll(SubSeq(blocks, 1, b - 1)), index))
IdsOf(blocks, n) == Each(Len(blocks), LAMBDA b : n + SizeAll(SubSeq(blocks, 1, b)))

\* The names of a function, and the index of every name of the bundle.
NamesOf(f) == {f.ret} \cup Range(f.params) \cup UNION {NamesIn(f.blocks[b]) : b \in DOMAIN f.blocks}
AllNames(fs, plan) == UNION {{Unique(n, f) : n \in NamesOf(fs[f])} : f \in DOMAIN fs}
                      \cup UNION {NamesIn(plan[b]) : b \in DOMAIN plan}
Numbers(order) == Input :> 0 @@ Data :> 1
                  @@ [n \in Range(order) |-> 1 + CHOOSE i \in DOMAIN order : order[i] = n]
NumbersOf(names) == Numbers(FoldSet(LAMBDA n, t : Append(t, n), <<>>, names \ {Input, Data}))

Linked(p, fs, plan, number) ==
    LET index(f) == number @@ [n \in NamesOf(fs[f]) |-> number[Unique(n, f)]]
        start(f) == SizeAll(plan \o Joined(f - 1, LAMBDA g : fs[g].blocks))
        function(f, local) == [params |-> Each(Len(fs[f].params), LAMBDA k : local[fs[f].params[k]]),
                               result |-> local[fs[f].ret], blocks |-> IdsOf(fs[f].blocks, start(f)),
                               arity |-> Len(fs[f].params), cacheable |-> Len(fs[f].params) = 2]
        called(n) == CHOOSE f \in DOMAIN fs : fs[f].name = n
    IN  [blocks |-> EmitAll(plan, 0, number)
                    \o Joined(Len(fs), LAMBDA f : EmitAll(fs[f].blocks, start(f), index(f))),
         plan |-> IdsOf(plan, 0),
         functions |-> [n \in {fs[f].name : f \in DOMAIN fs} |-> function(called(n), index(called(n)))],
         builtins |-> p.builtins, data |-> p.base, local_count |-> Cardinality(DOMAIN number)]
Numbered(p, fs, plan) == Linked(p, fs, plan, NumbersOf(AllNames(fs, plan)))
Bundle(p) == Numbered(p, WithRules(Templates(p)), PlanOf(p))
=============================================================================
