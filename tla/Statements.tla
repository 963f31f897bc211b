----------------------------- MODULE Statements -----------------------------
(***************************************************************************)
(* Statements of a bundle, with the fields of struct Statement and its     *)
(* extensions (include/rego/rego.hh), and operands.                        *)
(***************************************************************************)
EXTENDS Integers, Sequences

S(type, target) == [type |-> type, target |-> target, op0 |-> <<"raw", 0>>,
                    op1 |-> <<"raw", 0>>, blocks |-> <<>>, func |-> <<>>,
                    args |-> <<>>, path |-> <<>>]
L(i) == <<"local", i>>
V(v) == <<"value", v>>
R(n) == <<"raw", n>>
Str(x) == <<"string", x>>
S0(type, target, op) == [S(type, target) EXCEPT !.op0 = op]
S1(type, target, a, b) == [S(type, target) EXCEPT !.op0 = a, !.op1 = b]
SB(type, bs) == [S(type, 0) EXCEPT !.blocks = bs]
Scan(src, k, v, b) == [S1("Scan", src, R(k), R(v)) EXCEPT !.blocks = <<b>>]
With(target, path, op, b) == [S0("With", target, op) EXCEPT !.path = path, !.blocks = <<b>>]
CallFn(f, args, target) == [S("Call", target) EXCEPT !.func = f, !.args = args]
Dyn(path, args, target) == [S("CallDynamic", target) EXCEPT !.path = path, !.args = args]
\* F(1) to F(n), as the items of a sequence, or as sequences to be joined.
\* (One by one: TLC would evaluate the items of [i \in 1..n |-> F(i)] anew
\* wherever one is used.)
Each(n, F(_)) == LET s[i \in 0..n] == IF i = 0 THEN <<>> ELSE Append(s[i - 1], F(i)) IN s[n]
Joined(n, F(_)) == LET s[i \in 0..n] == IF i = 0 THEN <<>> ELSE s[i - 1] \o F(i) IN s[n]
BoolOp(b) == V(<<IF b THEN "true" ELSE "false">>)
=============================================================================
