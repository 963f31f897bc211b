----------------------------- MODULE UnifyMeaning -----------------------------
(***************************************************************************)
(* What a query body means, twice.  Solutions reads the unifications as    *)
(* constraints, in no order: the assignments of the body's variables that  *)
(* satisfy every literal.  Emitted runs the literals DependencyGraph       *)
(* emits, in their order, as the blocks rego_to_bundle makes of them do.   *)
(* The properties of DependencyGraph are stated here.                      *)
(***************************************************************************)
EXTENDS DependencyGraph

CONSTANTS Universe(_), \* the values the variables of a body are tried with
          Outer(_)     \* what the enclosing scopes give a variable

(* A value is <<"s", n>>, <<"a", v1, ..., vk>> or <<"o", {<<k, v>>}>>.      *)
Undef == <<"undef">>
Scalar(n) == <<"s", n>>
IsArrayValue(v) == v[1] = "a"
IsObjectValue(v) == v[1] = "o"
Fields(v) == IF IsObjectValue(v) THEN v[2] ELSE {}
Index(v, k) == IF IsArrayValue(v) /\ k + 2 \in DOMAIN v THEN v[k + 2] ELSE Undef
Field(v, k) == IF \E f \in Fields(v) : f[1] = k
                 THEN (CHOOSE f \in Fields(v) : f[1] = k)[2] ELSE Undef

(* The only function the bodies call: n + 1, undefined elsewhere.          *)
Next1(v) == IF v[1] = "s" THEN Scalar(v[2] + 1) ELSE Undef

(* A term under an assignment.  A Ref and a comprehension stand for a      *)
(* constant: they mention no local.                                        *)
RECURSIVE Eval(_, _)
Eval(t, env) ==
  LET sub == [k \in DOMAIN t.elems |-> Eval(t.elems[k], env)]
      key == [k \in DOMAIN t.keys |-> Eval(t.keys[k], env)]
      undef == (\E k \in DOMAIN sub : sub[k] = Undef)
               \/ (\E k \in DOMAIN key : key[k] = Undef) IN
  CASE t.kind \in {"unify", "var"} -> IF t.var \in DOMAIN env THEN env[t.var] ELSE Undef
    [] t.kind = "array"  -> IF undef THEN Undef ELSE <<"a">> \o sub
    [] t.kind = "object" -> IF undef THEN Undef
                            ELSE <<"o", {<<key[k], sub[k]>> : k \in DOMAIN sub}>>
    [] t.kind = "expr"   -> IF undef THEN Undef ELSE Next1(sub[1])
    [] OTHER             -> t.val

SameValue(l, r, env) == Eval(l, env) # Undef /\ Eval(l, env) = Eval(r, env)
Differ(l, r, env) == /\ Eval(l, env) # Undef /\ Eval(r, env) # Undef
                     /\ Eval(l, env) # Eval(r, env)

(* A test: `l == r`, or `l != r` where n is 1.                             *)
Holds(l, env) == IF l.n = 0 THEN SameValue(l.lhs, l.rhs, env)
                            ELSE Differ(l.lhs, l.rhs, env)

Elems(v) == IF IsArrayValue(v) THEN 0..Len(v) - 2 ELSE {}

Extend(env, v, value) ==
  [w \in DOMAIN env \cup {v} |-> IF w = v THEN value ELSE env[w]]

(* One emitted literal: the assignments it leaves.                         *)
Step(l, env) ==
  LET to(value) == IF value = Undef THEN {} ELSE {Extend(env, l.lhs.var, value)}
      from == Eval(l.rhs, env)
      this == Eval(l.lhs, env)
      if(cond) == IF cond THEN {env} ELSE {} IN
  CASE l.kind = "Expr"       -> if(Holds(l, env))
    [] l.kind = "Assign"     -> to(from)
    [] l.kind = "IsArray"    -> if(IsArrayValue(this) /\ Len(this) - 1 = l.n)
    [] l.kind = "FromArray"  -> to(Index(from, l.n))
    [] l.kind = "IsObject"   -> if(IsObjectValue(this) /\ Cardinality(Fields(this)) = l.n)
    [] l.kind = "FromObject" -> to(Field(from, Eval(l.key, env)))
    [] l.kind = "Scan"       -> {Extend(Extend(env, l.key.var, Scalar(k)), l.lhs.var,
                                        Index(from, k)) : k \in Elems(from)}

Given == [v \in body.enclosing |-> Outer(v)]

RECURSIVE RunFrom(_, _)
RunFrom(k, envs) ==
  IF k > Len(ordered) THEN envs
  ELSE RunFrom(k + 1, UNION {Step(lits[ordered[k]], env) : env \in envs})

BodyVars ==
  UNION {LET l == body.nodes[k].lit IN
           l.lhs.locals \cup l.rhs.locals \cup l.key.locals : k \in DOMAIN body.nodes}

OnBody(env) == [v \in BodyVars |-> env[v]]

EmittedSolutions == {OnBody(env) : env \in RunFrom(1, {Given})}

(* One node of the body, read as a constraint.                             *)
Satisfies(node, env) ==
  LET l == node.lit IN
  CASE node.unify      -> SameValue(l.lhs, l.rhs, env)
    [] l.kind = "Expr" -> Holds(l, env)
    [] l.kind = "Assign" -> SameValue(l.lhs, l.rhs, env)
    [] l.kind = "Scan" -> LET from == Eval(l.rhs, env) IN
         \E k \in Elems(from) : /\ env[l.key.var] = Scalar(k)
                                /\ env[l.lhs.var] = Index(from, k)

Solutions ==
  {env \in [BodyVars -> Universe(BodyVars)] :
     /\ \A v \in BodyVars \cap body.enclosing : env[v] = Outer(v)
     /\ \A k \in DOMAIN body.nodes : Satisfies(body.nodes[k], env)}

-----------------------------------------------------------------------------
(* Every variable of the body is produced by what is emitted, or given: a  *)
(* body that fails this is unsafe, and a later pass has to reject it.      *)
Determined ==
  \A v \in BodyVars : \/ v \in body.enclosing
                     \/ \E k \in DOMAIN ordered : Val(v) \in lits[ordered[k]].out

(* Turning unifications into assignments and tests, and reordering them,   *)
(* changes no answer: the emitted literals have exactly the solutions the  *)
(* body has as a set of constraints (pass unify, rego_to_bundle.cc:2682).  *)
SolutionsPreserved ==
  (phase = "done" /\ NeedsSort /\ dropped = 0 /\ Determined)
    => EmittedSolutions = Solutions

(* No literal comes before one that assigns what it uses.                  *)
AssignedBeforeUse ==
  phase = "done" =>
    \A k \in DOMAIN ordered : \A j \in k..Len(ordered) :
      lits[ordered[k]].in \cap lits[ordered[j]].out = {}

(* assert(!fail): a unification inside an array or an object is always     *)
(* resolved (dependency_graph.cc:557).                                     *)
NoneDropped == dropped = 0

(* The rounds end, the graphs are found and sorted: no body keeps the      *)
(* compiler busy for ever.                                                 *)
Terminates == <>(phase \in {"done", "error", "threw"})
=============================================================================
