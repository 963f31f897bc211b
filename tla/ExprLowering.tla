---------------------------- MODULE ExprLowering ----------------------------
(***************************************************************************)
(* From the literals of a query to statements: what the pass               *)
(* expr_to_opblock of src/rego_to_bundle.cc makes of queries that are      *)
(* already ordered (see DependencyGraph), with src/opblock.cc and          *)
(* src/internal.cc.                                                        *)
(*                                                                         *)
(* A policy is a record                                                    *)
(*   rules:    the definitions, a sequence of                              *)
(*             [path, kind, params, keys, chain, default]                  *)
(*   docs:     the virtual documents, paths in the order of their texts    *)
(*   base:     the base document, an object                                *)
(*   builtins: what the built-ins return, as in RegoVM                     *)
(*   entry:    the reference that is the entry point                       *)
(* A path starts with "data".  A definition's chain is the body with its   *)
(* else branches: [val, queries], each with one query or more.             *)
(*                                                                         *)
(* Until the last pass a local is a name: <<"x">> for a variable of the    *)
(* source, a longer one, made of a word and a place in the source, for a   *)
(* fresh one.  A block is a sequence of statements that hold blocks.       *)
(***************************************************************************)
EXTENDS Statements, FiniteSets, TLC
LOCAL INSTANCE SequencesExt
LOCAL INSTANCE FiniteSetsExt

-----------------------------------------------------------------------------
Input == <<"input">>
Data == <<"data">>
Documents == <<L(Input), L(Data)>>
Fresh(word, at) == <<word>> \o at
IsFresh(name) == Len(name) > 1

OpBlock(op, code) == [op |-> op, code |-> code]

-----------------------------------------------------------------------------
(* get_inner: a statement that follows a block goes where each item of its *)
(* last scan ends.  Once the expression of a With has become a block        *)
(* (`lifted') it goes where that block ends, before only if it is a scan.   *)
EndsWith(block, types) == block # <<>> /\ Last(block).type \in types
RECURSIVE Goes(_, _), AtInner(_, _, _)
Goes(block, lifted) ==
    \/ EndsWith(block, {"Scan"})
    \/ EndsWith(block, {"With"}) /\ (lifted \/ Goes(Last(block).blocks[1], FALSE))
AtInner(block, lifted, stmts) ==
    IF Goes(block, lifted)
    THEN Append(Front(block), [Last(block) EXCEPT !.blocks[1] = AtInner(@, lifted, stmts)])
    ELSE block \o stmts

\* add_literal_to_block: the value of an expression must be there and not be
\* false; an assignment, a scan and a negation only have to succeed.
NotFalse(op) == S1("NotEqual", <<>>, op, BoolOp(FALSE))
Tested(op, code) == [tested |-> TRUE, op |-> op, code |-> code]
Untested(code) == [tested |-> FALSE, op |-> BoolOp(TRUE), code |-> code]
AddLiteral(block, lit, lifted) ==
    IF lit.tested THEN AtInner(block \o lit.code, lifted, <<NotFalse(lit.op)>>)
                  ELSE block \o lit.code
AddLiterals(lits, lifted) == FoldLeft(LAMBDA b, lit : AddLiteral(b, lit, lifted), <<>>, lits)

SetTrue(name) == <<S0("AssignVar", name, BoolOp(TRUE))>>

-----------------------------------------------------------------------------
(* References into the documents. *)

IsDot(arg) == "dot" \in DOMAIN arg
RulesAt(p, path) == {i \in DOMAIN p.rules : p.rules[i].path = path}
DocAt(p, path) == \E i \in DOMAIN p.docs : p.docs[i] = path
Terminal == {"comp", "func", "objdyn", "setdyn"}
BaseAt(p, path) == LET v[i \in 1..Len(path)] ==
                          IF i = 1 THEN p.base
                          ELSE IF v[i - 1][1] # "object" \/ Str(path[i]) \notin DOMAIN v[i - 1][2]
                               THEN <<"none">> ELSE v[i - 1][2][Str(path[i])]
                   IN  v[Len(path)]

\* lookup_ref: how far a reference can be followed at compile time.  `found'
\* is the LookupType, `path' what was followed.  A step to the path `next' goes
\* on in the base document (`base') and among the documents that rules make.
VirtualAt(p, next) == (IF DocAt(p, next) THEN {"vdoc"} ELSE {})
                      \cup (IF RulesAt(p, next) # {} THEN {"rule"} ELSE {})
RECURSIVE Follow(_, _, _, _)
FollowTo(p, args, path, next, base, virtual, found) ==
    CASE ~base /\ virtual = {} -> [path |-> path, found |-> found]
      [] base /\ BaseAt(p, next)[1] # "object" -> [path |-> next, found |-> {"bdoc"}]
      [] ~(base /\ BaseAt(p, next)[1] # "object") /\ "rule" \in virtual
             /\ \E r \in RulesAt(p, next) : p.rules[r].kind \in Terminal ->
           [path |-> next, found |-> {"rule"}]
      [] OTHER -> Follow(p, args, next, virtual \cup (IF base THEN {"bdoc"} ELSE {}))
FollowDot(p, args, path, next, found) ==
    FollowTo(p, args, path, next,
             "bdoc" \in found /\ BaseAt(p, path)[1] = "object" /\ BaseAt(p, next) # <<"none">>,
             IF "vdoc" \in found THEN VirtualAt(p, next) ELSE {}, found)
Follow(p, args, path, found) ==
    IF Len(path) <= Len(args) /\ IsDot(args[Len(path)])
    THEN FollowDot(p, args, path, Append(path, args[Len(path)].dot), found)
    ELSE [path |-> path, found |-> found]

FoundAs(r, args) ==
    LET rest == Len(r.path)..Len(args)
    IN  CASE r.found = {"bdoc", "vdoc"} /\ r.path = Data /\ IsDot(args[1]) ->
               [r EXCEPT !.found = {"bdoc"}]
          [] r.found = {"vdoc"} /\ \E i \in rest : ~IsDot(args[i]) ->
               [r EXCEPT !.found = {"dynamic"}]
          [] r.found = {"vdoc"} /\ rest # {} -> [r EXCEPT !.found = {}]
          [] OTHER -> r
LookupRef(p, args) == FoundAs(Follow(p, args, Data, {"bdoc", "vdoc"}), args)

\* rule_stmt.
RuleCall(path, target) == CallFn(<<"g0">> \o path, Documents, target)

\* The statements that walk down a path of names: base_block, and the walk of
\* add_prefix, to a target.
Walk(path, word, at, target) ==
    LET name(i) == IF i = 1 THEN Data
                   ELSE IF i = Len(path) /\ target # <<>> THEN target ELSE Fresh(word, Append(at, i))
    IN  [name |-> name(Len(path)),
         code |-> Each(Len(path) - 1, LAMBDA i :
                      S1("Dot", name(i + 1), L(name(i)), V(Str(path[i + 1]))))]
BaseBlock(path, at, target) ==
    IF Len(path) = 1 THEN <<S0("AssignVar", target, L(Data))>>
    ELSE Walk(path, "basedot", at, target).code

\* document_stmt: the document that the rules below a path make, put together
\* in doc.  Only what the rest of the reference can match is put in.
Matches(path, n, args, start) ==
    \A i \in DOMAIN path : LET j == start + i - n - 1
                           IN  i > n /\ j \in DOMAIN args /\ IsDot(args[j]) => args[j].dot = path[i]
Child(parent, key, child) ==
    << <<S1("Dot", child, L(parent), V(Str(key)))>>,
       <<S("IsUndefined", child), S("MakeObject", child)>> >>
DocumentStmt(p, doc, name, args, start, at) ==
    LET n == Len(doc)
        child(k, i) == IF i = n THEN name ELSE Fresh("vdoc", at \o <<k, i>>)
        rules(d) == SelectSeq(Each(Len(p.rules), LAMBDA r : r), LAMBDA r :
                        /\ p.rules[r].kind # "func"
                        /\ Front(p.rules[r].path) = d
                        /\ Matches(p.rules[r].path, n, args, start))
        add(path, value, object) ==
            << <<RuleCall(path, value)>>,
               <<S("IsDefined", value),
                 S1("ObjectInsertOnce", object, V(Str(Last(path))), L(value))>> >>
        down(d, k) == Joined(Len(d) - n, LAMBDA i :
                          Child(child(k, n + i - 1), d[n + i], child(k, n + i)))
        up(d, k, m) == IF m = n THEN <<>>
                       ELSE << Each(m - n, LAMBDA i :
                                   S1("ObjectInsert", child(k, m - i), V(Str(d[m - i + 1])),
                                      L(child(k, m - i + 1)))) >>
        adds(d, k, rs) == Joined(Len(rs), LAMBDA i :
                              add(p.rules[rs[i]].path, Fresh("value", at \o <<k, rs[i]>>),
                                  child(k, Len(d))))
        put(d, k) == down(d, k) \o adds(d, k, rules(d)) \o up(d, k, Len(d))
        all(ds) == Joined(Len(ds), LAMBDA k : put(ds[k], k))
    IN  SB("Block", all(SelectSeq(p.docs, LAMBDA d : /\ Len(d) >= n /\ SubSeq(d, 1, n) = doc
                                                     /\ Matches(d, n, args, start))))

-----------------------------------------------------------------------------
(* Terms: to_operand, term_to_opblock and the functions it calls. *)

RECURSIVE Term(_, _, _), QueryBlock(_, _, _)

Parts(p, es, at) == Each(Len(es), LAMBDA i : Term(p, es[i], Append(at, i)))
CodeOf(parts) == Joined(Len(parts), LAMBDA i : parts[i].code)
OpsOf(parts) == Each(Len(parts), LAMBDA i : parts[i].op)

\* Numbers and null are made, strings and booleans are operands.
Scalar(v, at) ==
    CASE v[1] = "int"  -> OpBlock(L(Fresh("number", at)),
                                  <<S0("MakeNumberRef", Fresh("number", at), R(v[2]))>>)
      [] v[1] = "null" -> OpBlock(L(Fresh("null", at)), <<S("MakeNull", Fresh("null", at))>>)
      [] OTHER         -> OpBlock(V(v), <<>>)

MakeOf(kind) == CASE kind = "array" -> "MakeArray" [] kind = "set" -> "MakeSet"
                  [] OTHER -> "MakeObject"
\* The statement that adds an item to a container, by the kind of container.
AddItem(kind, insert, name, ops) ==
    CASE kind = "array" -> S0("ArrayAppend", name, ops[1])
      [] kind = "set"   -> S0("SetAdd", name, ops[1])
      [] OTHER          -> S1(insert, name, ops[1], ops[2])

Container(p, e, at) ==
    LET name == Fresh(e.kind, at)
        add(item) == CodeOf(item) \o <<AddItem(e.kind, "ObjectInsert", name, OpsOf(item))>>
    IN  OpBlock(L(name), <<S(MakeOf(e.kind), name)>>
            \o Joined(Len(e.items), LAMBDA i : add(Parts(p, e.items[i], Append(at, i)))))

Comprehension(p, e, at) ==
    LET name == Fresh(e.kind \o "compr", at)
        add(item) == CodeOf(item) \o <<AddItem(e.kind, "ObjectInsertOnce", name, OpsOf(item))>>
    IN  OpBlock(L(name), <<S(MakeOf(e.kind), name),
                           SB("Block", <<AtInner(QueryBlock(p, e.query, at), FALSE,
                                                 add(Parts(p, e.item, Append(at, 0))))>>)>>)

\* call_to_opblock, arithmetic and comparisons: a call of a function of the
\* policy (its path) or of a built-in (its name).
Call(p, e, at) ==
    LET target == Fresh("call", at)
        of(args) == OpBlock(L(target), CodeOf(args) \o
            <<CallFn(IF e.func[1] = "data" THEN <<"g0">> \o e.func ELSE e.func,
                     Documents \o OpsOf(args), target)>>)
    IN  of(Parts(p, e.args, at))
Equals(p, e, at) ==
    LET target == Fresh("infix", at)
        of(args) == OpBlock(L(target), CodeOf(args) \o <<S1("Equal", <<>>, args[1].op, args[2].op),
                                                         S0("AssignVar", target, BoolOp(TRUE))>>)
    IN  of(Parts(p, e.args, at))

\* The loop of ref_to_opblock over the arguments that are left.
Argument(p, arg, at) == IF IsDot(arg) THEN OpBlock(V(Str(arg.dot)), <<>>)
                                      ELSE Term(p, arg.brack, at)
Dots(p, from, args, start, at) ==
    LET name(j) == IF j < start THEN from ELSE Fresh("dot", Append(at, j))
        dot(j, arg) == Append(arg.code, S1("Dot", name(j), L(name(j - 1)), arg.op))
    IN  OpBlock(L(name(Len(args))), Joined(Len(args) - start + 1, LAMBDA k :
            dot(start + k - 1, Argument(p, args[start + k - 1], Append(at, start + k - 1)))))

\* add_prefix for a document that rules make, merged with the base document.
DocumentPrefix(p, e, r, name, at) ==
    LET bdoc == Fresh("bdoc", at)
        merge(from) == S1("ObjectMerge", name, L(from), L(name))
        mergeIfThere(walk) == SB("Block", <<walk.code, <<S("IsDefined", walk.name), merge(walk.name)>> >>)
    IN  <<S("MakeObject", name), DocumentStmt(p, r.path, name, e.args, Len(r.path), at)>>
        \o (IF "bdoc" \in r.found THEN BaseBlock(r.path, at, bdoc) \o <<merge(bdoc)>>
            ELSE <<mergeIfThere(Walk(r.path, "base", at, <<>>))>>)
\* rule_dynamic_block.
DynamicBlock(p, e, name, at) ==
    LET of(args) == Append(CodeOf(args), Dyn(<<V(Str("data"))>> \o OpsOf(args), Documents, name))
    IN  of(Each(Len(e.args), LAMBDA i : Argument(p, e.args[i], Append(at, i))))

\* ref_to_opblock and add_prefix: what a reference starts from, by what was found.
Prefix(p, e, r, name, at) ==
    CASE r.found = {}          -> Walk(r.path, "predot", at, <<>>)
      [] "rule" \in r.found    -> [name |-> name, code |-> <<RuleCall(r.path, name)>>]
      [] "vdoc" \in r.found    -> [name |-> name, code |-> DocumentPrefix(p, e, r, name, at)]
      [] r.found = {"bdoc"}    -> [name |-> name, code |-> BaseBlock(r.path, at, name)]
      [] r.found = {"dynamic"} -> [name |-> name, code |-> DynamicBlock(p, e, name, at)]
From(p, start, args, n, at) ==
    LET then(d) == OpBlock(d.op, start.code \o d.code)
    IN  then(Dots(p, start.name, args, n, at))
DataRef(p, e, at) ==
    LET rest(r) == IF r.found = {"dynamic"} THEN [args |-> <<>>, n |-> 1]
                   ELSE [args |-> e.args, n |-> Len(r.path)]
        from(start, to) == From(p, start, to.args, to.n, at)
        of(r) == from(Prefix(p, e, r, Fresh("prefix", at), at), rest(r))
    IN  of(LookupRef(p, e.args))

\* A reference into a local or into a value that is made on the spot.
Ref(p, e, at) ==
    LET of(head) == From(p, [name |-> head.op[2], code |-> head.code], e.args, 1, at)
    IN  of(Term(p, e.head, Append(at, 0)))

Term(p, e, at) ==
    CASE e.t = "value" -> Scalar(e.v, at)
      [] e.t = "var"   -> OpBlock(L(<<e.x>>), <<>>)
      [] e.t = "ref"   -> Ref(p, e, at)
      [] e.t = "data"  -> DataRef(p, e, at)
      [] e.t = "call"  -> Call(p, e, at)
      [] e.t = "equal" -> Equals(p, e, at)
      [] e.t = "compr" -> Comprehension(p, e, at)
      [] OTHER         -> Container(p, e, at)

-----------------------------------------------------------------------------
(* With: expand_withseq and process_withcalls. *)

\* The value of a With is a local of the source, an operand with its code, or
\* the rule, function or built-in that takes the place of the key.
Withs(p, withs, at) ==
    LET by(w, v) == [key |-> w.key, t |-> IF w.val.t = "var" THEN "local" ELSE "block",
                     op |-> v.op, code |-> v.code]
        of(w, i) == IF "func" \in DOMAIN w THEN [key |-> w.key, t |-> "func", func |-> w.func]
                    ELSE by(w, Term(p, w.val, Append(at, i)))
    IN  Each(Len(withs), LAMBDA i : of(withs[i], i))
ValueOnly(ws) == SelectSeq(ws, LAMBDA w : w.t # "func")

\* The local a key overwrites: a document, or one named after a built-in.
WithStmt(w, block) == IF w.key[1] \in {"input", "data"}
                      THEN With(<<w.key[1]>>, Each(Len(w.key) - 1, LAMBDA i : Str(w.key[i + 1])),
                                w.op, block)
                      ELSE With(w.key, <<>>, w.op, block)

Called(s) == IF s.func[1] = "g0" THEN Tail(s.func) ELSE s.func
ToFunc(ref) == IF ref[1] = "data" THEN <<"g0">> \o ref ELSE ref
ArgChecks(s) == LET locals == SelectSeq(SubSeq(s.args, 3, Len(s.args)), LAMBDA a : a[1] = "local")
                IN  Each(Len(locals), LAMBDA i : S("IsDefined", locals[i][2]))
\* What was put into data at a key, read back by a call's result.
FromData(key, word, target) ==
    LET w == Walk(key, word, target, <<>>)
    IN  Append(w.code, S0("AssignVar", target, L(w.name)))

\* A call of what a With replaces by a value reads the value; of what it
\* replaces by a function calls that one; any other call of a rule takes the
\* With along (WithCall) until with_rules.
RECURSIVE WithCalls(_, _)
WithCalls(code, ws) ==
    LET one(s, by) ==
          CASE s.type = "Call" /\ by # <<>> /\ Last(by).t = "func" ->
                 << [s EXCEPT !.func = ToFunc(Last(by).func)] >>
            [] s.type = "Call" /\ by # <<>> /\ Last(by).t # "func" ->
                 ArgChecks(s) \o (IF s.func[1] = "g0" THEN FromData(Called(s), "replaced", s.target)
                                  ELSE <<S0("AssignVar", s.target, L(s.func))>>)
            [] s.type = "Call" /\ by = <<>> /\ s.func[1] = "g0" ->
                 << [s EXCEPT !.type = "WithCall"] @@ [withs |-> ws] >>
            [] OTHER -> << [s EXCEPT !.blocks = Each(Len(@), LAMBDA i : WithCalls(@[i], ws))] >>
    IN  Joined(Len(code), LAMBDA i :
            one(code[i], SelectSeq(ws, LAMBDA w : w.key = Called(code[i]))))

\* expand_withseq: the values first, then one With in the other.
Expand(vs, code) ==
    IF vs = <<>> THEN code
    ELSE Joined(Len(vs), LAMBDA i : vs[i].code)
         \o FoldRight(LAMBDA w, inner : <<WithStmt(w, inner)>>, vs, code)
WithLiteral(lit, ws, at) ==
    LET name == Fresh("with", at)
        of(code) == IF lit.tested \/ ValueOnly(ws) = <<>> THEN [lit EXCEPT !.code = code]
                    ELSE Tested(L(name), AtInner(code, FALSE, SetTrue(name)))
    IN  IF ws = <<>> THEN lit ELSE of(Expand(ValueOnly(ws), WithCalls(lit.code, ws)))

-----------------------------------------------------------------------------
(* Literals: v is the operand of the literal's term, inner the block of its *)
(* query, ws its Withs.                                                    *)

Tests(v) == Tested(v.op, v.code)
Assign(lit, v, at) ==
    Untested(v.code \o <<S0("AssignVar", <<lit.x>>, v.op)>> \o SetTrue(Fresh("term", at)))

\* The patterns that unification leaves: a value of a kind and a size, an item of it.
HasSize(lit, at) ==
    LET name(word) == Fresh(word, at)
        v == L(<<lit.x>>)
    IN  Tested(L(name(lit.t)),
               << S0(IF lit.t = "isarray" THEN "IsArray" ELSE "IsObject", <<>>, v),
                  S0("Len", name("len"), v), S0("MakeNumberInt", name("size"), R(lit.size)),
                  S1("Equal", <<>>, L(name("len")), L(name("size"))) >> \o SetTrue(name(lit.t)))
Item(lit, v) == Untested(Append(v.code, S1("Dot", <<lit.x>>, L(<<lit.of>>), v.op)))

ScanOf(lit, v, inner) == Scan(v.op[2], <<lit.k>>, <<lit.v>>, inner)

Not(inner, at) ==
    LET found == Fresh("found", at)
    IN  Untested(<<SB("Not", << <<S("ResetLocal", found)>> \o AtInner(inner, FALSE, SetTrue(found))
                                \o <<S("IsDefined", found)>> >>)>>)

EveryItem(lit, inner, at) ==
    LET name(word) == Fresh(word, at)
    IN  << S0("AssignVar", <<lit.k>>, L(name("scanindex"))),
           S0("AssignVar", <<lit.v>>, L(name("scanvalue"))), S("ResetLocal", name("itemok")),
           SB("Block", <<AtInner(inner, FALSE, SetTrue(name("itemok")))>>),
           S("IsUndefined", name("itemok")) >> \o SetTrue(name("onebad"))
\* With functions alone expand_withseq returns the scan, and its block is what
\* becomes part of the literal.
Every(lit, inner, ws, at) ==
    LET name(word) == Fresh(word, at)
        under(scan) == IF ws # <<>> /\ ValueOnly(ws) = <<>> THEN WithCalls(scan, ws)[1].blocks[1]
                       ELSE WithLiteral(Untested(scan), ws, at).code
    IN  Tested(L(name("allok")),
               << S("ResetLocal", name("onebad")), S("IsDefined", <<lit.of>>) >>
               \o under(<<Scan(<<lit.of>>, name("scanindex"), name("scanvalue"),
                               EveryItem(lit, inner, at))>>)
               \o <<S("IsUndefined", name("onebad"))>> \o SetTrue(name("allok")))

Plain(lit, v, inner, at) ==
    CASE lit.t = "expr"   -> Tests(v)
      [] lit.t = "assign" -> Assign(lit, v, at)
      [] lit.t = "item"   -> Item(lit, v)
      [] lit.t = "not"    -> Not(inner, at)
      [] lit.t = "scan"   -> Untested(Append(v.code, ScanOf(lit, v, inner)))
      [] OTHER            -> HasSize(lit, at)
\* In the body of a rule (lift_functions) the source of a scan that takes code
\* is a literal of its own, which must not be false.
LiteralsOf(lit, v, inner, ws, body, at) ==
    CASE lit.t = "every" -> <<Every(lit, inner, ws, at)>>
      [] lit.t = "scan" /\ body /\ ws = <<>> ->
           (IF v.code = <<>> THEN <<>> ELSE <<Tests(v)>>) \o <<Untested(<<ScanOf(lit, v, inner)>>)>>
      [] OTHER -> <<WithLiteral(Plain(lit, v, inner, at), ws, at)>>
Literals(p, lit, body, at) ==
    LiteralsOf(lit, IF "e" \in DOMAIN lit THEN Term(p, lit.e, Append(at, 1))
                    ELSE OpBlock(BoolOp(TRUE), <<>>),
               IF "query" \in DOMAIN lit THEN QueryBlock(p, lit.query, Append(at, 2)) ELSE <<>>,
               Withs(p, lit.withs, Append(at, 3)), body, at)

\* The query of a comprehension, a scan, an every or a not, and that of a rule.
QueryBlock(p, q, at) ==
    AddLiterals(Joined(Len(q), LAMBDA i : Literals(p, q[i], FALSE, Append(at, i))), FALSE)
BodyBlock(p, q, at) ==
    AddLiterals(Joined(Len(q), LAMBDA i : Literals(p, q[i], TRUE, Append(at, i))), TRUE)
=============================================================================
