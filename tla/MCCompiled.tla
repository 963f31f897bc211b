----------------------------- MODULE MCCompiled -----------------------------
(***************************************************************************)
(* Small policies, compiled (RuleLowering) and run (RegoVM): the rule      *)
(* data.m.main over a library of rules, functions and documents.           *)
(***************************************************************************)
EXTENDS MCRegoVM, RuleMeaning, RegoVMLayout
LOCAL INSTANCE Functions
Compiler == INSTANCE RuleLowering

\* Compiling keeps the meaning: the bundle of a policy, run by the machine,
\* ends with the outcome and the results that the policy has when its literals
\* and rules are read one by one.  This is about every pass from the lowering
\* of literals to the numbering of locals (rego_to_bundle.cc) together with
\* what the machine does with the result: the order of blocks, the locals that
\* carry a value from one block to another, the functions cloned for a With.
CompiledMeans ==
    status \in {"done", "threw"} /\ ~Limited /\ "meaning" \in DOMAIN bundle =>
        Observed = bundle.meaning[entry[1].values[0]]

-----------------------------------------------------------------------------
(* Terms. *)
Value(v) == [t |-> "value", v |-> v]
Text(s) == Value(Str(s))
Num(n) == Value(<<"int", n>>)
Var(x) == [t |-> "var", x |-> x]
Apply(f, args) == [t |-> "call", func |-> f, args |-> args]
Same(a, b) == [t |-> "equal", args |-> <<a, b>>]
Compr(kind, item, q) == [t |-> "compr", kind |-> kind, item |-> item, query |-> q]
Items(kind, items) == [t |-> "container", kind |-> kind, items |-> items]
List(es) == Items("array", [i \in DOMAIN es |-> <<es[i]>>])
Key(n) == [dot |-> n]
At(e) == [brack |-> e]
Doc(args) == [t |-> "data", args |-> args]
P(n) == Doc(<<Key("p"), Key(n)>>)

(* Literals, and what a With says. *)
Lit(t) == [t |-> t, withs |-> <<>>]
Expr(e) == Lit("expr") @@ [e |-> e]
Let(x, e) == Lit("assign") @@ [x |-> x, e |-> e]
LetItem(x, of, key) == Lit("item") @@ [x |-> x, of |-> of, e |-> key]
HasSize(t, x, n) == Lit(t) @@ [x |-> x, size |-> n]
NotAny(q) == Lit("not") @@ [query |-> q]
Some(src, k, v, q) == Lit("scan") @@ [e |-> src, k |-> k, v |-> v, query |-> q]
Every(of, q) == Lit("every") @@ [of |-> of, k |-> "k", v |-> "v", query |-> q]
Within(lit, ws) == [lit EXCEPT !.withs = ws]
As(key, e) == [key |-> key, val |-> e]
By(key, f) == [key |-> key, func |-> f]

(* Rules of the package p. *)
Path(n) == <<"data", "p", n>>
Def(path, kind, keys, val, q) ==
    [path |-> path, kind |-> kind, params |-> <<>>, keys |-> keys, default |-> FALSE,
     chain |-> <<[val |-> val, queries |-> <<q>>]>>]
Rule(n, val, q) == Def(Path(n), "comp", <<>>, val, q)
Partial(n, kind, keys, val, q) == Def(Path(n), kind, keys, val, q)
Default(n, val) == [Rule(n, val, <<>>) EXCEPT !.default = TRUE]
Func(n, x, val, q) == [Def(Path(n), "func", <<>>, val, q) EXCEPT !.params = <<x>>]
Else(d, val, q) == [d EXCEPT !.chain = Append(@, [val |-> val, queries |-> <<q>>])]
Also(d, q) == [d EXCEPT !.chain[Len(d.chain)].queries = Append(@, q)]
InSub(d) == [d EXCEPT !.path = Path("sub") \o <<d.path[3]>>]

-----------------------------------------------------------------------------
(* The libraries. *)
In == Var("input")
K == Var("k")
V1 == Var("v")
InIs(s) == Expr(Same(In, Text(s)))
TopDoc == Doc(<<Key("top")>>)
Letters == List(<<Num(1), Text("a"), Text("b")>>)
SomeLetter(q) == <<Let("l", Letters), Some(Var("l"), "k", "v", q)>>

\* Rules and functions that call each other.
Logic ==
    << Else(Else(Rule("q", Num(1), <<InIs("a")>>), Num(2), <<InIs("b")>>), Num(4), <<InIs("c")>>),
       Default("q", Num(3)),
       Rule("r", Text("r"), <<InIs("a")>>),
       Rule("via", Var("m"), <<Let("m", P("q"))>>),
       Rule("e", Var("n"), <<Let("n", Apply(strict, <<Num(1)>>))>>),
       Func("f", "y", Text("hit"), <<Expr(Same(Var("y"), Text("a")))>>),
       Func("f", "y", Text("b"), <<Expr(Same(Var("y"), Text("b")))>>),
       Func("g", "y", List(<<Var("y"), P("q")>>), <<>>),
       Func("h", "y", Var("z"), <<Let("z", Apply(Path("f"), <<Var("y")>>))>>) >>
\* Partial rules.
Partials ==
    << Partial("s", "set", <<>>, V1, SomeLetter(<<Expr(Same(V1, In))>>)),
       Also(Partial("s", "set", <<>>, Num(7), <<>>), <<InIs("a")>>),
       Partial("o", "obj", <<Text("a")>>, Num(1), <<>>),
       Partial("o", "obj", <<Text("b")>>, In, <<InIs("a")>>),
       Partial("od", "objdyn", <<V1>>, K, SomeLetter(<<>>)),
       Partial("deep", "objdyn", <<Text("d"), V1>>, K, SomeLetter(<<>>)),
       Partial("sd", "setdyn", <<Text("d"), V1>>, K, SomeLetter(<<>>)),
       Partial("sd", "setdyn", <<Text("d"), Num(1)>>, Num(9), <<>>) >>
\* Rules in documents, and two that conflict.
Documented == << InSub(Rule("t", Num(8), <<>>)), InSub(Rule("u", Num(9), <<InIs("a")>>)),
                 Rule("v", Text("v"), <<>>) >>
\* An object rule beside the document of its own path.
Beside == << Partial("sub", "obj", <<Text("k")>>, Num(1), <<>>),
             Partial("sub", "obj", <<Text("l")>>, In, <<InIs("a")>>) >> \o Documented
Conflicting == << Rule("c", Num(1), <<>>), Rule("c", Num(2), <<InIs("a")>>),
                  Rule("v", Text("v"), <<>>) >>
\* Bodies in a chain, with else branches.
Chains ==
    << Also(Else(Also(Rule("b", Text("one"), <<InIs("a"), Expr(P("no"))>>), <<InIs("b")>>),
                 Text("two"), <<Expr(P("no"))>>), <<InIs("a")>>),
       Else(Also(Rule("d", Text("one"), <<InIs("a")>>), <<InIs("b")>>), Text("two"), <<>>),
       Else(Func("f", "y", Text("one"), <<Expr(Same(Var("y"), In))>>), Var("y"), <<>>),
       Rule("no", Value(<<"false">>), <<>>) >>

ObjectWith(k, v) == <<"object", Str(k) :> v>>
TopBase == ObjectWith("top", <<"array", <<one, Str("a")>> >>)
PBase == ObjectWith("p", <<"object", Str("base") :> ObjectWith("k", Str("b"))
                                     @@ Str("sub") :> ObjectWith("low", one)>>)

Policy(lib, base, q) ==
    [rules |-> Append(lib, Def(<<"data", "m", "main">>, "comp", <<>>, Var("x"), q)),
     docs |-> << <<"data", "m">>, <<"data", "p">> >>
              \o (IF lib \in {Documented, Beside} THEN <<Path("sub")>> ELSE <<>>),
     base |-> base, builtins |-> strict :> Err @@ <<"ok">> :> Str("ok"),
     entry |-> <<Key("m"), Key("main")>>]
Asks(e) == <<Let("x", e)>>
Found == Let("x", Num(1))

-----------------------------------------------------------------------------
(* The families. *)

\* What is evaluated, and under which Withs: rules, and functions.
RuleSubjects ==
    { Let("x", P("q")), Let("x", P("via")),
      Let("x", Compr("array", <<V1>>, <<Some(TopDoc, "k", "v", <<Expr(P("r"))>>)>>)),
      Some(Var("l"), "k", "v", <<Expr(Same(V1, In)), Let("x", P("via"))>>) }
FuncSubjects ==
    { Let("x", P("e")), Let("x", Apply(Path("f"), <<Text("b")>>)),
      Let("x", Apply(Path("h"), <<Text("b")>>)), Let("x", Apply(Path("g"), <<Text("a")>>)) }
WithPool ==
    { <<>>, <<As(<<"input">>, Text("b"))>>, <<As(Path("q"), Num(5))>>, <<As(Path("q"), Var("w"))>> }
RuleWiths ==
    { <<As(Path("q"), P("r"))>>, <<As(Path("r"), Value(<<"true">>))>>,
      <<As(<<"data", "top">>, List(<<Text("z")>>))>>,
      <<As(<<"input">>, Text("c")), As(Path("q"), List(<<Var("w"), P("r")>>))>> }
FuncWiths ==
    { <<By(Path("f"), Path("g"))>>, <<By(Path("f"), <<"ok">>)>>, <<By(strict, <<"ok">>)>>,
      <<As(strict, Text("z"))>> }
WithFamily ==
    { Policy(Logic, TopBase, <<Let("w", Text("z")), Let("l", Letters), Within(sw[1], sw[2])>>) :
      sw \in (RuleSubjects \X (WithPool \cup RuleWiths)) \cup (FuncSubjects \X (WithPool \cup FuncWiths)) }

\* The kinds of literals and terms.
Pair(a, b) == <<Let("l", List(<<Text(a), Text(b)>>))>>
LiteralPool ==
    { <<NotAny(<<Expr(P("r"))>>), Found>>,
      <<NotAny(<<Let("z", P("e"))>>), Found>>,
      <<Within(NotAny(<<Expr(P("r"))>>), <<As(<<"input">>, Text("b"))>>), Found>>,
      SomeLetter(<<Expr(Same(V1, In)), Let("x", K)>>),
      SomeLetter(<<Let("x", K)>>),
      <<Some(TopDoc, "k", "v", <<Some(TopDoc, "j", "u", <<Expr(Same(V1, In)),
                                      Expr(Same(Var("u"), In)), Let("x", K)>>)>>)>>,
      <<Let("l", Letters), Every("l", <<Expr(Same(V1, In))>>), Found>>,
      Pair("a", "a") \o <<Every("l", <<Expr(Same(V1, In))>>), Found>>,
      Pair("a", "b") \o <<Every("l", <<Expr(Apply(Path("f"), <<V1>>))>>), Found>>,
      Pair("a", "c") \o <<Every("l", <<Expr(Apply(Path("f"), <<V1>>))>>), Found>>,
      Pair("a", "c") \o <<Within(Every("l", <<Expr(Apply(Path("h"), <<V1>>))>>),
                                 <<As(<<"input">>, Text("b")), By(Path("f"), <<"ok">>)>>), Found>>,
      <<Let("l", List(<<>>)), Every("l", <<Expr(Same(V1, In))>>), Found>>,
      <<Let("l", TopDoc), HasSize("isarray", "l", 2), LetItem("x", "l", Num(1))>>,
      <<Let("l", TopDoc), HasSize("isarray", "l", 1), LetItem("x", "l", Num(1))>>,
      <<Expr(P("r")), Let("x", P("r"))>>,
      <<Let("z", Text("q")), Let("x", Doc(<<Key("p"), At(Var("z"))>>))>> }
TermPool ==
    { Compr("array", <<V1>>, <<Some(TopDoc, "k", "v", <<>>)>>),
      Compr("set", <<V1>>, <<Some(TopDoc, "k", "v", <<Expr(Same(V1, In))>>)>>),
      Compr("object", <<V1, K>>, <<Some(TopDoc, "k", "v", <<>>)>>),
      Compr("object", <<Text("a"), K>>, <<Some(TopDoc, "k", "v", <<>>)>>),
      Compr("array", <<Compr("set", <<Var("u")>>, <<Some(TopDoc, "j", "u", <<Expr(Same(Var("u"), V1))>>)>>)>>,
            <<Some(TopDoc, "k", "v", <<>>)>>),
      Items("object", << <<Text("k"), P("q")>>, <<Text("l"), P("r")>> >>),
      Doc(<<Key("top"), At(Num(1))>>), Doc(<<Key("p"), At(Text("r"))>>),
      Doc(<<Key("p"), At(Text("nothing"))>>) }
LogicFamily == { Policy(Logic, TopBase, q) : q \in LiteralPool \cup {Asks(e) : e \in TermPool} }

\* Partial rules, alone, in the document above them, and under a With.
PartialPool ==
    {Asks(P(n)) : n \in {"s", "o", "od", "sd", "deep"}} \cup
    { Asks(Doc(<<Key("p"), Key("o"), At(Text("b"))>>)), Asks(Doc(<<Key("p")>>)),
      <<Let("w", P("o")), HasSize("isobject", "w", 2), LetItem("x", "w", Text("b"))>>,
      <<Some(P("s"), "k", "v", <<Expr(Same(V1, Num(7))), Let("x", K)>>)>>,
      Asks(Compr("set", <<V1>>, <<Some(P("od"), "k", "v", <<>>)>>)),
      <<Within(Let("x", P("s")), <<As(<<"input">>, Text("b"))>>)>>,
      <<Within(Let("x", P("s")), <<As(Path("s"), Text("b"))>>)>> }
PartialFamily == { Policy(Partials, EmptyObject, q) : q \in PartialPool }

\* Documents that rules make, beside base documents or not.
DocPool ==
    {Asks(Doc([i \in DOMAIN path |-> Key(path[i])])) : path \in
        { <<"p">>, <<"p", "sub">>, <<"p", "sub", "low">>, <<"p", "sub", "u">>, <<"p", "base">>,
          <<"p", "base", "k">> }} \cup
    { Asks(Doc(<<Key("p"), At(Text("v"))>>)),
      <<Let("z", Text("u")), Let("x", Doc(<<Key("p"), Key("sub"), At(Var("z"))>>))>>,
      Asks(Compr("array", <<K>>, <<Some(Doc(<<Key("p"), Key("sub")>>), "k", "v",
                                        <<Expr(Same(V1, Num(8)))>>)>>)),
      <<Within(Let("x", Doc(<<Key("p"), Key("sub")>>)), <<As(<<"input">>, Text("a"))>>)>> }
ConflictPool == { Asks(P("c")), Asks(Doc(<<Key("p")>>)), <<NotAny(<<Expr(P("c"))>>), Found>> }
DocFamily == { Policy(Documented, b, q) : b \in {EmptyObject, TopBase, PBase}, q \in DocPool }
             \cup { Policy(Conflicting, TopBase, q) : q \in ConflictPool }

\* An object rule that starts from a document, and under a With.
BesidePool ==
    { Asks(P("sub")), Asks(Doc(<<Key("p")>>)), Asks(Doc(<<Key("p"), Key("sub"), Key("k")>>)),
      <<Within(Let("x", P("sub")), <<As(<<"input">>, Text("a"))>>)>> }
BesideFamily == { Policy(Beside, b, q) : b \in {EmptyObject, TopBase}, q \in BesidePool }

\* Chains of bodies and else branches.
ChainPool == { <<Within(Let("x", e), <<As(<<"input">>, Text(i))>>)>> : e \in {P("b"), P("d"),
                 Apply(Path("f"), <<Text("a")>>)}, i \in {"a", "b", "c"} }
ChainFamily == { Policy(Chains, TopBase, q) : q \in ChainPool }

Compiled(p) == Compiler!Bundle(p) @@ [meaning |-> Str("a") :> PolicyMeaning(p, Str("a"))
                                                  @@ Undef :> PolicyMeaning(p, Undef)]
Policies == WithFamily \cup LogicFamily \cup PartialFamily \cup DocFamily \cup BesideFamily
            \cup ChainFamily

\* The three kinds of bundles, told apart before they are made.
Kinds == { <<"core", c>> : c \in CoreChoices } \cup { <<"data", c>> : c \in DataChoices }
         \cup { <<"policy", p>> : p \in Policies }
BundleOf(kind, c) ==
    CASE kind = "core" -> Core(c[1], c[2], c[3], c[4], c[5])
      [] kind = "data" -> DataBundle(c[1], c[2], c[3])
      [] kind = "policy" -> Compiled(c)
AllBundles == { BundleOf(k[1], k[2]) : k \in Kinds }

-----------------------------------------------------------------------------
(* The layout (RegoVMLayout) that a bundle has, if it has one: what its     *)
(* blocks lend, as a fixed point over blocks and functions, and what is     *)
(* under construction before each statement, from the outermost blocks      *)
(* inwards.                                                                 *)
\* The locals whose nodes are handed on while statement j of block x runs.
During(b, g) ==
    [x \in DOMAIN b.blocks |-> [j \in DOMAIN b.blocks[x] |->
        LET s == b.blocks[x][j]
        IN  Lent(s) \cup UNION {g.lends[y] : y \in Range(s.blocks)}
                    \cup UNION {g.gives[f] : f \in Callees(b, s)}]]
RECURSIVE LendsFrom(_, _)
LendsFrom(b, g) ==
    LET during == During(b, g)
        lends == [x \in DOMAIN b.blocks |-> UNION Range(during[x])]
        next == [lends |-> lends,
                 gives |-> [f \in DOMAIN b.functions |->
                     {b.functions[f].result}
                     \cup UNION {lends[y] : y \in Range(b.functions[f].blocks)}]]
    IN  IF next = g THEN g ELSE LendsFrom(b, next)
LendsOf(b) == LendsFrom(b, [lends |-> [x \in DOMAIN b.blocks |-> {}],
                            gives |-> [f \in DOMAIN b.functions |-> {}]])

\* From `start' on, what has been made in block x and not handed on since.
OpenIn(b, own, during, x, start) ==
    LET body == b.blocks[x]
        made(s) == IF s.type \in Makers THEN {s.target} \cap own ELSE {}
        open[j \in 1..(Len(body) + 1)] ==
            IF j = 1 THEN start
            ELSE (open[j - 1] \ during[x][j - 1]) \cup made(body[j - 1])
    IN  open
\* The results that function blocks other than the first find open.
ResultsIn(b, own, g, x) ==
    {r \in own : \E f \in DOMAIN b.functions :
        LET bs == b.functions[f].blocks
            first == b.blocks[bs[1]]
        IN  /\ r = b.functions[f].result /\ x \in Range(Tail(bs))
            /\ first # <<>> /\ first[1].type = "ResetLocal" /\ first[1].target = r
            /\ \A y \in Range(bs) : r \notin g.lends[y]}
\* The statements that run block x.
Runners(b, x) ==
    UNION {{<<y, j>> : j \in {i \in DOMAIN b.blocks[y] : x \in Range(b.blocks[y][i].blocks)}} :
           y \in DOMAIN b.blocks}
RECURSIVE OpenFrom(_, _, _, _, _)
OpenFrom(b, own, during, runners, start) ==
    LET open == [x \in DOMAIN b.blocks |-> OpenIn(b, own, during, x, start[x])]
        next == [x \in DOMAIN b.blocks |->
                    IF runners[x] = {} THEN start[x]
                    ELSE {l \in own : \A q \in runners[x] :
                             l \in open[q[1]][q[2]] \cap open[q[1]][q[2] + 1]}]
    IN  IF next = start THEN open ELSE OpenFrom(b, own, during, runners, next)

\* The blocks nested in those of xs, at any depth, and they themselves.
RECURSIVE NestedIn(_, _)
NestedIn(b, xs) ==
    LET next == xs \cup UNION {UNION {Range(s.blocks) : s \in Range(b.blocks[x])} : x \in xs}
    IN  IF next = xs THEN xs ELSE NestedIn(b, next)
\* The functions called from those blocks, and from what they call.
RECURSIVE CalledFrom(_, _, _)
CalledFrom(b, text, fs) ==
    LET next == fs \cup UNION {UNION {Callees(b, s) : s \in UNION {Range(b.blocks[x]) : x \in text[f]}}
                               : f \in fs}
    IN  IF next = fs THEN fs ELSE CalledFrom(b, text, next)

LayoutOf(b) ==
    LET own == Builders(b)
        g == LendsOf(b)
        runners == [x \in DOMAIN b.blocks |-> Runners(b, x)]
        text == [f \in DOMAIN b.functions |-> NestedIn(b, Range(b.functions[f].blocks))]
        called(f) == UNION {Callees(b, s) : s \in UNION {Range(b.blocks[x]) : x \in text[f]}}
    IN  [open |-> OpenFrom(b, own, During(b, g), runners,
                           [x \in DOMAIN b.blocks |-> ResultsIn(b, own, g, x)]),
         lends |-> g.lends, gives |-> g.gives,
         main |-> NestedIn(b, Range(b.plan)), text |-> text,
         calls |-> [f \in DOMAIN b.functions |-> CalledFrom(b, text, called(f))]]

\* What RegoVMSharing assumes of a bundle holds of those compiled here, and of
\* the plans laid out by hand as the compiler lays them out (whatever the data
\* is); but not of a bundle that takes a container up again from the one it was
\* put into, as nested documents and rules with more than one key do.
Resumes(b) == \E s \in StatementsOf(b) : s.type = "Dot" /\ s.target \in Builders(b)
LayoutFits(b) == LET lay == LayoutOf(b) IN BuildsApart(b, lay) /\ CallsApart(b, lay)
LaidOutAsAssumed ==
    /\ \A c \in PlanPool \X PlanPool \X FPool \X GPool :
          LayoutFits(Core(c[1], c[2], c[3], c[4], EmptyObject))
    /\ \A p \in Policies : LET b == Compiler!Bundle(p) IN Resumes(b) \/ LayoutFits(b)
ASSUME LaidOutAsAssumed

\* Policies that the compiler does not keep the meaning of: a rule whose calls
\* are all under a With, called under a With; a document made anew for each item.
OddBundles == {Compiled(p) : p \in
    { Policy(Append(Logic, Rule("n", Var("nm"), <<Within(Let("nm", P("via")), <<As(<<"input">>, Text("c"))>>)>>)),
             TopBase, <<Within(Let("x", P("n")), <<As(Path("q"), Num(5))>>)>>),
      Policy(Documented, TopBase,
             Asks(Compr("array", <<Var("z")>>, Pair("a", "b") \o
                 <<Some(Var("l"), "k", "v", <<Within(Let("z", Doc(<<Key("p"), Key("sub")>>)),
                                                     <<As(<<"input">>, V1)>>)>>)>>))) }}
=============================================================================
