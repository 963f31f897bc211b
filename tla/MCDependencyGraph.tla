-------------------------- MODULE MCDependencyGraph --------------------------
(* Bodies for TLC, written in Rego in the comments.                        *)
EXTENDS UnifyMeaning, TLC

x == <<"x", 0>>
y == <<"y", 0>>
z == <<"z", 0>>
idx == <<"scanindex", 1>>
elt == <<"scanvalue", 1>>

T(kind, v, elems, keys, val) ==
  LET under(f) == UNION ({f[k].unify : k \in DOMAIN f}) IN
  [kind |-> kind, var |-> v, elems |-> elems, keys |-> keys, val |-> val,
   unify  |-> IF kind = "unify" THEN {v} ELSE under(elems) \cup under(keys),
   locals |-> IF kind = "unify" THEN {v} ELSE under(elems) \cup under(keys)]

U(v) == T("unify", v, <<>>, <<>>, None)
N(n) == T("scalar", NoVar, <<>>, <<>>, Scalar(n))
Arr(es) == T("array", NoVar, es, <<>>, None)
Obj(ks, es) == T("object", NoVar, es, ks, None)
Plus1(e) == T("expr", NoVar, <<e>>, <<>>, None)
Const(kind, val) == T(kind, NoVar, <<>>, <<>>, val)

X == U(x)
Y == U(y)
Z == U(z)
Pair12 == <<"a", Scalar(1), Scalar(2)>>

Unify(l, r) == [unify |-> TRUE, lit |-> Lit("Expr", {}, {}, l, r)]
Plain(l)    == [unify |-> FALSE, lit |-> l]
Is(l, r)    == Plain(Equals(l, r))
Isnt(l, r)  == Plain([Equals(l, r) EXCEPT !.n = 1])
Let(v, e)   == Plain(Assign(v, e))
Some(e)     == Plain(Scan(e, idx, elt))

MCOuter(v) == Scalar(1)

(* Sequences of up to n different nodes.                                   *)
Once(nodes) == \A j, k \in DOMAIN nodes : nodes[j] = nodes[k] => j = k
Upto(S, n) == {nodes \in UNION {[1..k -> S] : k \in 1..n} : Once(nodes)}

In(nodes, locals, enclosing) ==
  [locals |-> locals, nodes |-> nodes, enclosing |-> enclosing]

MCLocals == {x, y, z, idx, elt, <<"w", 0>>}

CoreNodes ==
  { Unify(X, Y),                         \* x = y
    Unify(Y, Z),                         \* y = z
    Unify(Z, Arr(<<X, Y>>)),             \* z = [x, y]
    Unify(Arr(<<X, N(2)>>), Arr(<<N(1), Y>>)), \* [x, 2] = [1, y]
    Unify(Y, Plus1(X)),                  \* y = x + 1
    Unify(X, U(elt)),                    \* x = (the element scanned)
    Let(x, N(1)),                        \* x = 1
    Some(Arr(<<N(1), N(2)>>)),           \* some ... in [1, 2]
    Is(X, Y),                            \* x == y
    Isnt(X, N(1)) }                      \* x != 1

CoreBodies ==
  {In(ns, <<>>, {}) : ns \in Upto(CoreNodes, 3)}
  \cup {In(ns, <<Local(x)>>, {x}) : ns \in Upto(CoreNodes \ {Let(x, N(1))}, 2)}

RECURSIVE Subterms(_)
Subterms(t) == {t} \cup (UNION {Subterms(t.elems[k]) : k \in DOMAIN t.elems})
                   \cup (UNION {Subterms(t.keys[k]) : k \in DOMAIN t.keys})

TermsIn(nodes) ==
  UNION {Subterms(n.lit.lhs) \cup Subterms(n.lit.rhs) \cup Subterms(n.lit.key)
         : n \in nodes}

CoreTerms == TermsIn(CoreNodes)

Scalars == {Scalar(n) : n \in 0..3}
CoreUniverse(vs) ==
  Scalars \cup (IF z \notin vs THEN {}
               ELSE {<<"a", v, w>> : v \in {Scalar(1), Scalar(2)},
                                     w \in {Scalar(1), Scalar(2), Scalar(3)}})

-----------------------------------------------------------------------------
(* References, comprehensions, objects, sets and a function argument w.    *)

w == <<"w", 0>>
W == VarTerm(w)
Arg == [Lit("RuleLocal", {}, {Val(w)}, W, NoTerm) EXCEPT !.kind = "RuleLocal"]
InputPair == Const("ref", Pair12)                       \* input.pair, [1, 2]
InputOne == Const("ref", Scalar(1))                     \* input.one
SetOf1 == <<"set", {Scalar(1)}>>
Obj12 == <<"o", {<<Scalar(1), Scalar(2)>>}>>            \* {1: 2}
TwoOf(e1, e2) == Obj(<<N(1), N(2)>>, <<e1, e2>>)

DataNodes ==
  { Unify(InputPair, Arr(<<X, Y>>)),                    \* input.pair = [x, y]
    Unify(X, InputOne),                                 \* x = input.one
    Unify(Y, InputPair),                                \* y = input.pair
    Unify(Y, Arr(<<N(1), X>>)),                         \* y = [1, x]
    Unify(Arr(<<X, Y>>), Const("arraycompr", Pair12)),  \* [x, y] = [... | ...]
    Unify(Const("objectcompr", Obj12), Obj(<<N(1)>>, <<Y>>)), \* {... | ...} = {1: y}
    Unify(TwoOf(X, N(2)), TwoOf(N(1), Y)),              \* {1: x, 2: 2} = {1: 1, 2: y}
    Unify(Obj(<<X>>, <<Y>>), Obj(<<X>>, <<N(2)>>)),     \* {x: y} = {x: 2}
    Unify(Obj(<<N(1)>>, <<Y>>), InputOne),              \* {1: y} = input.one
    Unify(Arr(<<Arr(<<X>>), N(2)>>), Arr(<<Arr(<<N(1)>>), Y>>)), \* [[x], 2] = [[1], y]
    Unify(X, Const("other", SetOf1)),                   \* x = {1}
    Unify(InputOne, Const("other", SetOf1)),            \* input.one = {1}
    Unify(N(1), Arr(<<X>>)),                            \* 1 = [x]
    Unify(W, X),                                        \* w = x
    Unify(Arr(<<Y>>), W),                               \* [y] = w
    Unify(W, Plus1(X)),                                 \* w = x + 1
    Unify(InputOne, Plus1(X)),                          \* input.one = x + 1
    Unify(Obj(<<N(1)>>, <<Y>>), Plus1(X)),              \* {1: y} = x + 1
    Unify(Const("other", SetOf1), Plus1(X)),            \* {1} = x + 1
    Unify(Arr(<<X, Plus1(N(1))>>), Arr(<<N(1), Plus1(N(1))>>)), \* [x, 1 + 1] = [1, 1 + 1]
    Unify(Arr(<<X, Y>>), Arr(<<N(1)>>)),                \* [x, y] = [1]
    Unify(TwoOf(X, Y), Obj(<<N(1)>>, <<N(1)>>)) }       \* {1: x, 2: y} = {1: 1}

DataBodies == {In(ns, <<Arg>>, {w}) : ns \in Upto(DataNodes, 2)}
DataTerms == TermsIn(DataNodes) \cup {W}
DataUniverse(vs) ==
  Scalars \cup {Pair12, SetOf1, <<"a", Scalar(1), Scalar(1)>>,
               <<"a", Scalar(1), Pair12>>, <<"a", Scalar(1), SetOf1>>}

ScanNodes == { Some(Arr(<<N(0), N(2)>>)),               \* some i, e in [0, 2]
               Is(U(idx), U(elt)),                      \* i == e
               Unify(X, U(elt)) }                       \* x = e
ScanBodies == {In(ns, <<>>, {}) : ns \in Upto(ScanNodes, 3)}

AllBodies == CoreBodies \cup DataBodies \cup ScanBodies
ASSUME BodiesApart == \A b \in AllBodies : NamesApart(b)
AllTerms == CoreTerms \cup DataTerms \cup TermsIn(ScanNodes)
AllUniverse(vs) == IF z \in vs \/ elt \in vs THEN CoreUniverse(vs) ELSE DataUniverse(vs)

-----------------------------------------------------------------------------
(* Bodies the order or the translation of which is not what is said.       *)

LateNodes == <<Is(X, N(1)), Let(x, N(1))>>               \* x == 1; x = 1
LateBodies == {In(LateNodes, <<>>, {})}
LongNodes == <<Unify(Arr(<<X>>), Arr(<<N(1), N(2)>>))>>  \* [x] = [1, 2]
LongBodies == {In(LongNodes, <<>>, {})}
SwapNodes == <<Unify(Arr(<<X, Y>>), Arr(<<Y, N(1)>>))>>  \* [x, y] = [y, 1]
SwapBodies == {In(SwapNodes, <<>>, {})}
FlawTerms == TermsIn({nodes[k] : <<nodes, k>> \in
               UNION {{ns} \X DOMAIN ns : ns \in {LateNodes, LongNodes, SwapNodes}}})
=============================================================================
