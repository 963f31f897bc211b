---------------------------- MODULE RuleMeaning ----------------------------
(***************************************************************************)
(* What a policy means, without statements: the reference that compiled    *)
(* policies (RuleLowering) are compared with.  Queries are taken literal   *)
(* by literal in order, a query has a sequence of solutions (functions     *)
(* from variables to values), a rule is evaluated anew wherever it is      *)
(* referred to.  An error anywhere is the error of the whole.              *)
(*                                                                         *)
(* A context c has the input, the data and what the Withs around replace:  *)
(* over, a sequence of [key, val] or [key, func], the last one in force.   *)
(***************************************************************************)
EXTENDS RegoEval, Statements, TLC
LOCAL Seqs == INSTANCE SequencesExt
LOCAL INSTANCE FiniteSetsExt

NoSolutions == [envs |-> <<>>, bad |-> FALSE]
Solution(env) == [envs |-> <<env>>, bad |-> FALSE]
Failure == [envs |-> <<>>, bad |-> TRUE]
When(v, env) == CASE v = Err -> Failure
                  [] v \in {Undef, <<"false">>} -> NoSolutions
                  [] OTHER -> Solution(env)
Both(r, s) == [envs |-> r.envs \o s.envs, bad |-> r.bad \/ s.bad]

\* The keys of a value in the order of a scan (any order but for arrays).
KeySeq(v) == IF Tag(v) = "array" THEN [i \in DOMAIN v[2] |-> <<"int", i - 1>>]
             ELSE FoldSet(LAMBDA k, s : Append(s, k), <<>>, KeysOf(v))
\* Several values, one value: an error if they differ, undefined if there is none.
OneOf(vs) == CASE Err \in vs \/ Cardinality(vs \ {Undef}) > 1 -> Err
               [] vs \subseteq {Undef} -> Undef
               [] OTHER -> CHOOSE v \in vs : v # Undef
\* A container of the values; the error or the missing value of an item is its own.
Made(vs, v) == IF Err \in vs THEN Err ELSE IF Undef \in vs THEN Undef ELSE v
\* An object of pairs: a key with two values is an error.
ObjectOf(pairs) ==
    LET vals(k) == {q[2] : q \in {r \in pairs : r[1] = k}}
        m == [k \in {q[1] : q \in pairs} |-> OneOf(vals(k))]
    IN  IF \E k \in DOMAIN m : m[k] = Err THEN Err ELSE <<"object", m>>
Elements(s) == {s[i] : i \in DOMAIN s}

Named(arg) == "dot" \in DOMAIN arg
Prefix(short, long) == Len(short) <= Len(long) /\ SubSeq(long, 1, Len(short)) = short
DefsOf(p, path) == SelectSeq(p.rules, LAMBDA d : d.path = path)
IsFunc(ds) == ds # <<>> /\ ds[1].kind = "func"
IsDoc(p, path) == path = <<"data">> \/ \E i \in DOMAIN p.docs : p.docs[i] = path
Replacing(c, key) == SelectSeq(c.over, LAMBDA o : o.key = key)
BaseOf(c, path) == DotAll(c.data, [i \in 1..(Len(path) - 1) |-> Str(path[i + 1])])

RECURSIVE Eval(_, _, _, _), Walked(_, _, _, _, _), Solve(_, _, _, _),
          RuleValue(_, _, _, _), Branch(_, _, _, _, _), Tree(_, _)

\* The values of a term, of a reference's arguments.
Values(p, c, es, env) == [i \in DOMAIN es |-> Eval(p, c, es[i], env)]
ArgValues(p, c, args, env) ==
    [i \in DOMAIN args |-> IF Named(args[i]) THEN Str(args[i].dot) ELSE Eval(p, c, args[i].brack, env)]
\* v, unless one of the values it is made from is an error or is not there.
Strict(vs, v) == CASE Err \in Elements(vs) -> Err
                   [] Undef \in Elements(vs) -> Undef
                   [] OTHER -> v

\* A function on argument values: what a With puts in its place, a function of
\* the policy, a built-in.
FuncValue(p, c, f, vs) == IF f[1] = "data" THEN RuleValue(p, c, f, vs) ELSE p.builtins[f]
Applied(p, c, f, vs, by) ==
    IF by # <<>> /\ "val" \in DOMAIN Seqs!Last(by) THEN Seqs!Last(by).val
    ELSE FuncValue(p, c, IF by = <<>> THEN f ELSE Seqs!Last(by).func, vs)

Firsts(items) == [i \in DOMAIN items |-> items[i][1]]
ContainerOf(kind, items) ==
    CASE kind = "array" -> <<"array", Firsts(items)>>
      [] kind = "set"   -> <<"set", Elements(Firsts(items))>>
      [] OTHER -> <<"object", Seqs!FoldLeft(LAMBDA m, kv : (kv[1] :> kv[2]) @@ m, <<>>, items)>>
\* An item of a comprehension that is not there is left out.
Collected(kind, items) == IF kind = "object" THEN ObjectOf(Elements(items)) ELSE ContainerOf(kind, items)
Comprehension(kind, bad, items) ==
    IF bad \/ \E i \in DOMAIN items : Err \in Elements(items[i]) THEN Err
    ELSE Collected(kind, SelectSeq(items, LAMBDA vs : Undef \notin Elements(vs)))
PerSolution(p, c, e, s) ==
    Comprehension(e.kind, s.bad, [i \in DOMAIN s.envs |-> Values(p, c, e.item, s.envs[i])])

EvalDocs(p, c, keys) == Strict(keys, Walked(p, c, <<"data">>, keys, 1))
EvalRef(head, keys) == CASE Err \in Elements(keys) \cup {head} -> Err
                         [] head = Undef -> Undef
                         [] OTHER -> DotAll(head, keys)
EvalFunc(p, c, f, vs) == Strict(vs, Applied(p, c, f, vs, Replacing(c, f)))
EvalEqual(vs) == Strict(vs, IF vs[1] = vs[2] THEN <<"true">> ELSE Undef)
EvalContainer(kind, items) ==
    Strict(Seqs!FlattenSeq(items), ContainerOf(kind, items))
Eval(p, c, e, env) ==
    CASE e.t = "value" -> e.v
      [] e.t = "var"   -> IF e.x = "input" THEN c.input ELSE env[e.x]
      [] e.t = "ref"   -> EvalRef(Eval(p, c, e.head, env), ArgValues(p, c, e.args, env))
      [] e.t = "data"  -> EvalDocs(p, c, ArgValues(p, c, e.args, env))
      [] e.t = "call"  -> EvalFunc(p, c, e.func, Values(p, c, e.args, env))
      [] e.t = "equal" -> EvalEqual(Values(p, c, e.args, env))
      [] e.t = "compr" -> PerSolution(p, c, e, Solve(p, c, e.query, env))
      [] e.t = "container" ->
           EvalContainer(e.kind, [i \in DOMAIN e.items |-> Values(p, c, e.items[i], env)])

\* All that is below a path: the rules, the documents below and the base.
ChildNames(p, path) ==
    {q[Len(path) + 1] : q \in {q \in {d.path : d \in {r \in Elements(p.rules) : r.kind # "func"}}
                                     \cup Elements(p.docs) : Prefix(path, q) /\ q # path}}
Document(p, c, path) ==
    LET entries == {<<Str(n), Walked(p, c, Append(path, n), <<>>, 1)>> : n \in ChildNames(p, path)}
        with(base, made) == IF made # Err /\ Tag(base) = "object" THEN MergeObjects(made, base)
                            ELSE made
    IN  with(BaseOf(c, path), ObjectOf({q \in entries : q[2] # Undef}))
\* A reference into the documents from `path', the i-th key being the next.
Into(v, keys) == IF v \in {Undef, Err} THEN v ELSE DotAll(v, keys)
Walked(p, c, path, keys, i) ==
    LET ds == DefsOf(p, path)
        by == Replacing(c, path)
        rest == SubSeq(keys, i, Len(keys))
    IN  CASE by # <<>> -> Into(Seqs!Last(by).val, rest)
          [] by = <<>> /\ IsFunc(ds) -> Undef
          [] by = <<>> /\ ds # <<>> /\ ~IsFunc(ds) -> Into(RuleValue(p, c, path, <<>>), rest)
          [] by = <<>> /\ ds = <<>> /\ ~IsDoc(p, path) -> DotAll(BaseOf(c, path), rest)
          [] OTHER -> IF rest = <<>> THEN Document(p, c, path)
                      ELSE IF Tag(keys[i]) # "string" THEN Undef
                      ELSE Walked(p, c, Append(path, keys[i][2]), keys, i + 1)

\* The context under Withs whose values, taken outside, are vals.
PutUnder(c, w, val) ==
    LET steps == [i \in 1..(Len(w.key) - 1) |-> Str(w.key[i + 1])]
        over(o) == [c EXCEPT !.over = Append(@, o)]
    IN  CASE "func" \in DOMAIN w -> over([key |-> w.key, func |-> w.func])
          [] w.key[1] = "input" -> [c EXCEPT !.input = SetPath(@, steps, val)]
          [] w.key[1] = "data"  -> [over([key |-> w.key, val |-> val])
                                        EXCEPT !.data = SetPath(@, steps, val)]
          [] OTHER -> over([key |-> w.key, val |-> val])
PutAll(c, withs, vals) ==
    Seqs!FoldLeft(LAMBDA d, i : PutUnder(d, withs[i], vals[i]), c, [i \in DOMAIN withs |-> i])

\* The solutions of one literal: v the value of its term, over the solutions of
\* its query for each item of v or of the local `of', inner those of its query.
Kind(t) == IF t = "isarray" THEN "array" ELSE "object"
OfLiteral(lit, v, env, over, inner) ==
    CASE lit.t = "expr" -> When(v, env)
      [] lit.t \in {"assign", "item"} ->
           CASE v = Err -> Failure
             [] v = Undef -> NoSolutions
             [] OTHER -> Solution((lit.x :> v) @@ env)
      [] lit.t \in {"isarray", "isobject"} ->
           IF Tag(env[lit.x]) = Kind(lit.t) /\ Cardinality(KeysOf(env[lit.x])) = lit.size
           THEN Solution(env) ELSE NoSolutions
      [] lit.t = "not" ->
           IF inner.bad THEN Failure ELSE IF inner.envs = <<>> THEN Solution(env) ELSE NoSolutions
      [] lit.t = "scan" ->
           IF v = Err THEN Failure ELSE Seqs!FoldLeft(Both, NoSolutions, over)
      [] lit.t = "every" ->
           CASE Tag(v) \notin {"array", "set", "object"} -> NoSolutions
             [] \E i \in DOMAIN over : over[i].bad -> Failure
             [] \E i \in DOMAIN over : over[i].envs = <<>> -> NoSolutions
             [] OTHER -> Solution(env)
ItemEnv(lit, v, env, k) == (lit.k :> k) @@ (lit.v :> ItemAt(v, k)) @@ env
ItemEnvs(lit, v, env) ==
    LET of(keys) == [i \in DOMAIN keys |-> ItemEnv(lit, v, env, keys[i])]
    IN  of(KeySeq(v))
Solved(p, c, lit, v, env) ==
    LET envs == CASE lit.t \in {"scan", "every"} -> ItemEnvs(lit, v, env)
                  [] lit.t = "not" -> <<env>>
                  [] OTHER -> <<>>
        of(inner) == OfLiteral(lit, v, env, inner, IF inner = <<>> THEN NoSolutions ELSE inner[1])
        inEach(es) == [i \in DOMAIN es |-> Solve(p, c, lit.query, es[i])]
    IN  of(inEach(envs))
LiteralValue(p, c, lit, env) ==
    CASE lit.t = "every" -> env[lit.of]
      [] lit.t # "every" /\ "e" \in DOMAIN lit -> Eval(p, c, lit.e, env)
      [] OTHER -> Undef
ItemOf(lit, v, env) == IF lit.t = "item" /\ v # Err THEN DotAll(env[lit.of], <<v>>) ELSE v
Solves(p, c, lit, env) == Solved(p, c, lit, ItemOf(lit, LiteralValue(p, c, lit, env), env), env)
Under(p, c, lit, env, vals) ==
    CASE Err \in Elements(vals) -> Failure
      [] Undef \in Elements(vals) -> NoSolutions
      [] OTHER -> Solves(p, PutAll(c, lit.withs, vals), lit, env)
WithValues(p, c, withs, env) ==
    [i \in DOMAIN withs |-> IF "func" \in DOMAIN withs[i] THEN Str("")
                            ELSE Eval(p, c, withs[i].val, env)]

\* The solutions of a query, literal by literal.
ThenSolve(p, c, q, first) ==
    Seqs!FoldLeft(LAMBDA r, e : Both(r, Solve(p, c, q, e)), [envs |-> <<>>, bad |-> first.bad],
                  first.envs)
Solve(p, c, q, env) ==
    IF q = <<>> THEN Solution(env)
    ELSE ThenSolve(p, c, Tail(q), Under(p, c, q[1], env, WithValues(p, c, q[1].withs, env)))

\* The first branch of a definition, from the k-th on, that has a solution.
Branch(p, c, d, k, env) ==
    LET or(r) == IF r.bad \/ r.envs # <<>> \/ k = Len(d.chain)
                 THEN [sols |-> r, terms |-> <<d.chain[k].val>> \o d.keys]
                 ELSE Branch(p, c, d, k + 1, env)
    IN  or(Seqs!FoldLeft(LAMBDA s, q : Both(s, Solve(p, c, q, env)), NoSolutions,
                         d.chain[k].queries))

\* The object that entries, pairs of a key path and a value, make; with `many'
\* the values of a path are a set.
Tree(entries, many) ==
    IF \A e \in entries : e[1] = <<>>
    THEN IF many THEN <<"set", {e[2] : e \in entries}>> ELSE OneOf({e[2] : e \in entries})
    ELSE ObjectOf({<<k, Tree({<<Tail(e[1]), e[2]>> : e \in {x \in entries : x[1][1] = k}}, many)>> :
                   k \in {e[1][1] : e \in entries}})

\* The values and keys that the definitions ds give, the default ones or not.
HeadsOf(p, c, bs) ==
    IF \E i \in DOMAIN bs : bs[i].sols.bad THEN {<<Err>>}
    ELSE UNION {{Values(p, c, bs[i].terms, s) : s \in Elements(bs[i].sols.envs)} : i \in DOMAIN bs}
Heads(p, c, ds, env, default) ==
    HeadsOf(p, c, Seqs!FoldLeft(LAMBDA r, d : Append(r, Branch(p, c, d, 1, env)), <<>>,
                                SelectSeq(ds, LAMBDA d : d.default = default)))
Single(heads) == OneOf({h[1] : h \in heads})
OrDefault(v, heads) == IF v = Undef THEN Single(heads) ELSE v
WithDocument(p, c, path, kind, v) == IF v # Err /\ IsDoc(p, path) THEN MergeObjects(v, Document(p, c, path))
                                ELSE v
TreeOf(entries, many) == IF entries = {} THEN EmptyObject ELSE Tree(entries, many)
Defined(p, c, path, kind, heads, defaults) ==
    CASE <<Err>> \in heads -> Err
      [] <<Err>> \notin heads /\ kind \in {"comp", "func"} -> OrDefault(Single(heads), defaults)
      [] <<Err>> \notin heads /\ kind = "set" -> <<"set", {h[1] : h \in heads}>>
      [] OTHER -> WithDocument(p, c, path, kind, TreeOf({<<Tail(h), h[1]>> : h \in heads}, kind = "setdyn"))
\* A rule of a path, for the arguments vs of a function: all its definitions,
\* the default when none of them gives a value.
RuleOf(p, c, path, ds, env) ==
    Defined(p, c, path, ds[1].kind, Heads(p, c, ds, env, FALSE), Heads(p, c, ds, env, TRUE))
RuleValue(p, c, path, vs) ==
    LET of(ds) == RuleOf(p, c, path, ds,
                         [x \in Elements(ds[1].params) |-> vs[CHOOSE i \in DOMAIN vs : ds[1].params[i] = x]])
    IN  of(DefsOf(p, path))

\* What a run of the compiled policy shows, as in RegoEval.
PolicyMeaning(p, input) ==
    LET v == Eval(p, [input |-> input, data |-> p.base, over |-> <<>>],
                  [t |-> "data", args |-> p.entry], <<>>)
    IN  CASE v = Err   -> <<"errors">>
          [] v = Undef -> <<"results", <<>> >>
          [] OTHER     -> <<"results", << <<"object", Str("result") :> v>> >> >>
=============================================================================
