--------------------------- MODULE DependencyGraph ---------------------------
(***************************************************************************)
(* How the compiler orders the literals of one query body                  *)
(* (dependency_graph.cc, run by pass "unify" of rego_to_bundle.cc on every *)
(* Query node).  A unification `l = r` has no direction; the graph turns   *)
(* each one into assignments and equality tests, adds the names the body   *)
(* takes from outside, splits the literals into subgraphs, and emits them  *)
(* so that every name is produced before it is used.                       *)
(*                                                                         *)
(* add_exprs and the functions it calls recurse over the two terms; `work` *)
(* is that recursion, a stack of calls still to be made.  A term carries   *)
(* the sets its traversals collect: `unify`, what get_unifyvars returns,   *)
(* and `locals`, what add_locals inserts.                                  *)
(***************************************************************************)
EXTENDS Integers, Sequences, FiniteSets

CONSTANTS Locals,  \* the variables the bodies name
          Terms,   \* the terms and expressions of the bodies, with their subterms
          Bodies   \* the bodies to order

(* A variable is one of the source or one m_scope->fresh() makes.  The     *)
(* graph keeps four names for it: its value, its declaration ("#empty"),   *)
(* and what ExprIsArray and ExprIsObject establish about it.               *)
NoVar == <<"none", 0>>
Vars  == Locals \cup ({"fresh"} \X Nat) \cup {NoVar}
Names == Vars \X {"val", "empty", "array", "object"}

Val(v)    == <<v, "val">>
Empty(v)  == <<v, "empty">>
Vals(vs)  == {Val(v) : v \in vs}

(* The term kinds the functions below tell apart.  "unify" is a UnifyVar,  *)
(* "var" a Var, "expr" an Expr that is not a Term (ExprCall, ExprInfix,    *)
(* UnaryExpr), "other" a Set or a SetCompr.                                *)
TermKinds == {"unify", "var", "ref", "scalar", "array", "object",
              "arraycompr", "objectcompr", "other", "expr"}

None == <<"none">>

VarTerm(v) == [kind |-> "var", var |-> v, elems |-> <<>>, keys |-> <<>>,
               unify |-> {}, locals |-> {v}, val |-> None]
NoTerm == [kind |-> "scalar", var |-> NoVar, elems |-> <<>>, keys |-> <<>>,
           unify |-> {}, locals |-> {}, val |-> None]

(* What the functions are called with: a term of a body, or a Var made on  *)
(* the way.                                                                *)
VarTerms == [kind : {"var"}, var : Vars, elems : {<<>>}, keys : {<<>>},
             unify : {{}}, locals : SUBSET Vars, val : {None}]
Operands == Terms \cup VarTerms \cup {NoTerm}

Declarations == {"Local", "RuleLocal", "EveryLocal", "ScanLocal", "Capture"}
Emitted      == {"Expr", "Assign", "Scan", "IsArray", "FromArray", "IsObject",
                 "FromObject"}

Literal == [kind : Declarations \cup Emitted, in : SUBSET Names,
            out : SUBSET Names, lhs : Operands, rhs : Operands,
            key : Operands, n : Nat]

(* A node of a body: a literal, or a unification of two expressions.       *)
Node == [unify : BOOLEAN, lit : Literal]

Body == [locals : Seq(Literal),   \* LocalSeq of the scope
         nodes : Seq(Node),       \* the Literals of the query
         enclosing : SUBSET Vars] \* names around a not or every body, else {}

ASSUME TermsWellFormed ==
  \A t \in Terms : /\ t.kind \in TermKinds /\ t.var \in Locals \cup {NoVar}
                   /\ (t.kind = "unify" => t.var \in Locals)
                   /\ t.elems \in Seq(Terms) /\ t.keys \in Seq(Terms)
                   /\ t.unify \subseteq Locals /\ t.locals \subseteq Locals
                   /\ (t.kind = "object" => Len(t.keys) = Len(t.elems))

(* m_scope->fresh() makes a name that is nowhere in the tree.              *)
ASSUME FreshIsNew == \A v \in Locals : v \notin {"fresh"} \X Nat

ASSUME BodiesWellFormed == Bodies \subseteq Body

-----------------------------------------------------------------------------
(* The literals, with the edges update_edges gives each kind.              *)

Lit(kind, in, out, lhs, rhs) ==
  [kind |-> kind, in |-> in, out |-> out, lhs |-> lhs, rhs |-> rhs,
   key |-> NoTerm, n |-> 0]

Local(v)   == Lit("Local", {}, {Empty(v)}, VarTerm(v), NoTerm)
Capture(v) == Lit("Capture", {}, {Val(v)}, VarTerm(v), NoTerm)

Assign(v, e) ==
  Lit("Assign", {Empty(v)} \cup Vals(e.locals), {Val(v)}, VarTerm(v), e)
Equals(l, r) ==
  Lit("Expr", Vals(l.locals \cup r.locals), {}, l, r)
Scan(e, key, val) ==
  [Lit("Scan", {Empty(key), Empty(val)} \cup Vals(e.locals),
       {Val(key), Val(val)}, VarTerm(val), e) EXCEPT !.key = VarTerm(key)]

IsArray(v, size)  ==
  [Lit("IsArray", {Val(v)}, {<<v, "array">>}, VarTerm(v), NoTerm) EXCEPT !.n = size]
IsObject(v, size) ==
  [Lit("IsObject", {Val(v)}, {<<v, "object">>}, VarTerm(v), NoTerm) EXCEPT !.n = size]

(* A mistake for TLC to find: elements counted from one.                   *)
FromArrayFromOne(v, src, i) ==
  [Lit("FromArray", {<<src, "array">>, Empty(v)}, {Val(v)}, VarTerm(v),
       VarTerm(src)) EXCEPT !.n = i + 1]
FromArray(v, src, i) ==
  [Lit("FromArray", {<<src, "array">>, Empty(v)}, {Val(v)}, VarTerm(v),
       VarTerm(src)) EXCEPT !.n = i]
FromObject(v, src, k) ==
  [Lit("FromObject", {<<src, "object">>, Empty(v)} \cup Vals(k.locals), {Val(v)},
       VarTerm(v), VarTerm(src)) EXCEPT !.key = k]

-----------------------------------------------------------------------------
VARIABLES
  body,      \* the body being ordered
  phase,     \* what the constructor, then sort(), is doing
  pos,       \* nodes of m_nodes already added
  lits,      \* m_literals; m_locals is derived from it below
  queue,     \* m_unify_literals, as [l, r]
  round,     \* unifications left in this round of resolve_unify_literals
  size,      \* length of the queue when the round began
  current,   \* the unification being resolved
  work,      \* calls of the add_* functions still to make, innermost first
  fresh,     \* names m_scope->fresh() has made
  dropped,   \* nested calls that returned true (assert(!fail), nothing in Release)
  xs,        \* literals find_graphs has not looked at, from the back
  graph,     \* the subgraph being found, then the one being sorted
  graphs,    \* m_graphs
  frontier,  \* topological_sort's queue
  trail,     \* literals topological_sort has visited, in order
  bound,     \* its visited_locals
  ordered    \* m_orderedseq: indices of the literals emitted, in order

building == <<body, pos, queue, round, size, current, work, fresh, dropped>>
sorting  == <<xs, graph, graphs, frontier, trail, bound, ordered>>
vars     == <<phase, lits, building, sorting>>

(* m_locals: who uses a name, who produces it last, what is assigned.      *)
Consumers(name)  == {i \in 1..Len(lits) : name \in lits[i].in}
Producers(name)  == {i \in 1..Len(lits) : name \in lits[i].out}
InEdge(name)     == CHOOSE i \in Producers(name) : \A j \in Producers(name) : j <= i

(* A mistake for TLC to find: a captured variable counts as unassigned.    *)
IsAssignedHere(name) == \E i \in Producers(name) : lits[i].kind # "Capture"
IsAssigned(name) == Producers(name) # {}
Assigned(vs)     == \A v \in vs : IsAssigned(Val(v))

(* A set of indices as the sequence a std::set or a vector of them lists.  *)
InOrder(S) ==
  [k \in 1..Cardinality(S) |->
     CHOOSE i \in S : Cardinality({j \in S : j < i}) = k - 1]

Init ==
  /\ body \in Bodies
  /\ phase = "locals" /\ pos = 0 /\ lits = <<>>
  /\ queue = <<>> /\ round = 0 /\ size = 0 /\ work = <<>>
  /\ current = [l |-> NoTerm, r |-> NoTerm] /\ fresh = 0 /\ dropped = 0
  /\ xs = 0 /\ graph = {} /\ graphs = <<>>
  /\ frontier = <<>> /\ trail = <<>> /\ bound = {} /\ ordered = <<>>

-----------------------------------------------------------------------------
(* The constructor: add_rule_locals, add_unify_literals,                   *)
(* add_external_captures.                                                  *)

AddRuleLocals ==
  /\ phase = "locals"
  /\ lits' = body.locals
  /\ phase' = "nodes"
  /\ UNCHANGED <<building, sorting>>

AddNode ==
  /\ phase = "nodes" /\ pos < Len(body.nodes)
  /\ pos' = pos + 1
  /\ LET node == body.nodes[pos + 1] IN
       IF node.unify
         THEN /\ queue' = Append(queue, [l |-> node.lit.lhs, r |-> node.lit.rhs])
              /\ UNCHANGED lits
         ELSE /\ lits' = Append(lits, node.lit)
              /\ UNCHANGED queue
  /\ UNCHANGED <<phase, body, round, size, current, work, fresh, dropped, sorting>>

UnifyVarsOf(l) == l.lhs.unify \cup l.rhs.unify \cup l.key.unify

ExternalTo(b) == {v \in b.enclosing :
                    \E k \in DOMAIN b.nodes : v \in UnifyVarsOf(b.nodes[k].lit)}
External == ExternalTo(body)

Captured(v) == \E i \in 1..Len(lits) : lits[i] = Capture(v)

(* The order of the captures is left open: they are never emitted.         *)
AddExternalCapture ==
  /\ phase = "nodes" /\ pos = Len(body.nodes)
  /\ \E v \in External : ~Captured(v) /\ lits' = Append(lits, Capture(v))
  /\ UNCHANGED <<phase, building, sorting>>

NodesAdded ==
  /\ phase = "nodes" /\ pos = Len(body.nodes)
  /\ \A v \in External : Captured(v)
  /\ phase' = "resolve"
  /\ UNCHANGED <<lits, building, sorting>>

-----------------------------------------------------------------------------
(* resolve_unify_literals: rounds over the queue until it is empty or a    *)
(* whole round has resolved nothing.                                       *)

Resolving == phase = "resolve" /\ work = <<>> /\ round = 0

(* A mistake for TLC to find: a round that resolves nothing is repeated.   *)
StalledNever == FALSE
Stalled == size = Len(queue) /\ size > 0

StartRound ==
  /\ Resolving /\ queue # <<>> /\ ~Stalled
  /\ size' = Len(queue) /\ round' = Len(queue)
  /\ UNCHANGED <<phase, lits, body, pos, queue, current, work, fresh, dropped,
                 sorting>>

EndResolve ==
  /\ Resolving /\ (queue = <<>> \/ Stalled)
  /\ phase' = "captures"
  /\ UNCHANGED <<lits, building, sorting>>

(* A call still to make.  "unify" is add_exprs, "match" is add_expr_var;   *)
(* "fromarray" and "fromobject" are one turn of the loop of add_array_var  *)
(* and of add_object_var.  `top` marks the call resolve_unify_literals     *)
(* made, whose result decides whether the unification goes back.           *)
Call(fn, l, r, top) == [fn |-> fn, l |-> l, r |-> r, key |-> NoTerm, n |-> 0,
                        top |-> top]

Pop ==
  /\ phase = "resolve" /\ work = <<>> /\ round > 0
  /\ round' = round - 1 /\ queue' = Tail(queue) /\ current' = Head(queue)
  /\ work' = <<Call("unify", Head(queue).l, Head(queue).r, TRUE)>>
  /\ UNCHANGED <<phase, lits, body, pos, size, fresh, dropped, sorting>>

(* The call adds literals `add`, makes the calls `calls` and uses `new`    *)
(* fresh names; it returns `fail`.                                         *)
Result(add, calls, new, fail) ==
  /\ lits' = lits \o add
  /\ work' = calls \o Tail(work)
  /\ fresh' = fresh + new
  /\ queue' = IF fail /\ Head(work).top THEN Append(queue, current) ELSE queue
  /\ dropped' = IF fail /\ ~Head(work).top THEN dropped + 1 ELSE dropped
  /\ UNCHANGED <<phase, body, pos, round, size, current, sorting>>

Succeed(add) == Result(add, <<>>, 0, FALSE)
Fail         == Result(<<>>, <<>>, 0, TRUE)
Fresh        == <<"fresh", fresh>>

(* add_assign: a declaration first if the variable has none.               *)
AddAssign(v, e) ==
  (IF IsAssigned(Empty(v)) THEN <<>> ELSE <<Local(v)>>) \o <<Assign(v, e)>>

(* Two mistakes for TLC to find: the second unification of a variable      *)
(* assigns it again, and it is not tested.                                 *)
GiveAgain(v, l, r) == AddAssign(v, r)
GiveUntested(v, l, r) == IF IsAssigned(Val(v)) THEN <<>> ELSE AddAssign(v, r)

(* A UnifyVar against what is known: a test if it has a value already.     *)
Give(v, l, r) == IF IsAssigned(Val(v)) THEN <<Equals(l, r)>> ELSE AddAssign(v, r)

Calling(fn) == phase = "resolve" /\ work # <<>> /\ Head(work).fn = fn

IsVar(t)  == t.kind = "unify"
IsTerm(t) == t.kind # "expr"

(* The two arguments of the call, either way round.                        *)
Sides == {<<Head(work).l, Head(work).r>>, <<Head(work).r, Head(work).l>>}

(* Hand term t to add_term_var with a fresh variable that holds e.         *)
MatchFresh(t, e) ==
  Result(AddAssign(Fresh, e), <<Call("match", t, VarTerm(Fresh), Head(work).top)>>,
         1, FALSE)
MatchVar(t, v) ==
  Result(<<>>, <<Call("match", t, VarTerm(v), Head(work).top)>>, 0, FALSE)

AddUnifyVars ==
  /\ Calling("unify")
  /\ LET l == Head(work).l  r == Head(work).r IN
       /\ IsVar(l) /\ IsVar(r)
       /\ IF IsAssigned(Val(l.var)) THEN Succeed(Give(r.var, r, l))
          ELSE IF IsAssigned(Val(r.var)) THEN Succeed(Give(l.var, l, r))
          ELSE Fail

AddUnifyVarTerm ==
  /\ Calling("unify")
  /\ \E s \in Sides : LET v == s[1]  t == s[2] IN
       /\ IsVar(v) /\ IsTerm(t) /\ ~IsVar(t)
       /\ IF Assigned(t.locals) THEN Succeed(Give(v.var, v, t))
          ELSE IF IsAssigned(Val(v.var)) THEN MatchVar(t, v.var)
          ELSE Fail

(* add_terms once neither side is a UnifyVar: a Var or a Ref on the left   *)
(* first, then one on the right.                                           *)
AddTermsVar ==
  /\ Calling("unify")
  /\ LET l == Head(work).l  r == Head(work).r
         Known(t) == t.kind \in {"var", "ref"} IN
       /\ IsTerm(l) /\ IsTerm(r) /\ ~IsVar(l) /\ ~IsVar(r)
       /\ Known(l) \/ Known(r)
       /\ LET known == IF Known(l) THEN l ELSE r
              other == IF Known(l) THEN r ELSE l IN
            IF known.kind = "var" THEN MatchVar(other, known.var)
                                  ELSE MatchFresh(other, known)

Comprehended == {<<"array", "arraycompr">>, <<"object", "objectcompr">>}

AddTermsCompr ==
  /\ Calling("unify")
  /\ \E s \in Sides : /\ <<s[1].kind, s[2].kind>> \in Comprehended
                      /\ MatchFresh(s[1], s[2])

(* No unification can occur: the two sides are tested.                     *)
AddTermsEquals ==
  /\ Calling("unify")
  /\ LET l == Head(work).l  r == Head(work).r
         plain == TermKinds \ {"unify", "var", "ref", "expr"} IN
       /\ l.kind \in plain /\ r.kind \in plain
       /\ <<l.kind, r.kind>> \notin Comprehended \cup {<<"array", "array">>,
                                                       <<"object", "object">>}
       /\ <<r.kind, l.kind>> \notin Comprehended
       /\ Succeed(<<Equals(l, r)>>)

AddTermExpr ==
  /\ Calling("unify")
  /\ \E s \in Sides : LET t == s[1]  e == s[2] IN
       /\ IsTerm(t) /\ ~IsTerm(e)
       /\ IF ~Assigned(e.locals) THEN Fail
          ELSE CASE IsVar(t)                     -> Succeed(Give(t.var, t, e))
                 [] t.kind \in {"var", "scalar"} -> Succeed(<<Equals(t, e)>>)
                 [] t.kind = "ref" ->
                      Result(AddAssign(Fresh, t) \o <<Equals(e, VarTerm(Fresh))>>,
                             <<>>, 1, FALSE)
                 [] t.kind \in {"array", "object"} -> MatchFresh(t, e)
                 [] OTHER -> Fail

AddExprsUnsupported ==
  /\ Calling("unify") /\ ~IsTerm(Head(work).l) /\ ~IsTerm(Head(work).r)
  /\ Fail

-----------------------------------------------------------------------------
(* add_array_array and add_object_object.  The elements are taken pairwise *)
(* up to the size of the left side; at() throws when the right is shorter. *)

AnyUnassigned(t) == ~Assigned(t.unify)

ElementCalls(l, r, is, js) ==
  [k \in DOMAIN is |-> Call("unify", l.elems[is[k]], r.elems[js[k]], FALSE)]

Throw == /\ phase' = "threw"
         /\ UNCHANGED <<lits, building, sorting>>

AddArrayArray ==
  /\ Calling("unify")
  /\ LET l == Head(work).l  r == Head(work).r
         all == [k \in 1..Len(l.elems) |-> k] IN
       /\ l.kind = "array" /\ r.kind = "array"
       /\ IF Len(r.elems) < Len(l.elems) THEN Throw
          ELSE IF \E k \in DOMAIN all : AnyUnassigned(l.elems[k])
                                      \/ AnyUnassigned(r.elems[k])
            THEN Result(<<>>, ElementCalls(l, r, all, all), 0, FALSE)
            ELSE Succeed(<<Equals(l, r)>>)

(* Keys are told apart by the map they go to and their text, here the key  *)
(* term; the keys of a term are listed in the order of those maps.  The    *)
(* matched pairs are unified even when others are left over.               *)
AddObjectObject ==
  /\ Calling("unify")
  /\ LET l == Head(work).l  r == Head(work).r
         items == 1..Len(l.elems)
         there == items \cap 1..Len(r.elems)
         match(i) == {j \in there : r.keys[j] = l.keys[i]}
         matched == InOrder({i \in items : match(i) # {}})
         with == [k \in DOMAIN matched |-> CHOOSE j \in match(matched[k]) : TRUE]
         leftover == \/ \E i \in items : match(i) = {}
                     \/ \E j \in there : \A i \in items : j \notin match(i)
         keyless(k) == AnyUnassigned(l.keys[k])
                       \/ (k \in there /\ AnyUnassigned(r.keys[k]))
         beyond == items \ there IN
       /\ l.kind = "object" /\ r.kind = "object"
       /\ IF \E k \in items : keyless(k) /\ \A b \in beyond : k <= b THEN Fail
          ELSE IF beyond # {} THEN Throw
          ELSE IF \E k \in items : AnyUnassigned(l.elems[k]) \/ AnyUnassigned(r.elems[k])
            THEN Result(<<>>, ElementCalls(l, r, matched, with), 0, leftover)
            ELSE Succeed(<<Equals(l, r)>>)

-----------------------------------------------------------------------------
(* add_expr_var and add_term_var, and the loops of add_array_var and       *)
(* add_object_var.                                                         *)

MatchVariable ==
  /\ Calling("match") /\ IsVar(Head(work).l)
  /\ Succeed(Give(Head(work).l.var, Head(work).l, Head(work).r))

MatchEquals ==
  /\ Calling("match") /\ Head(work).l.kind \in {"var", "ref", "scalar", "expr"}
  /\ Succeed(<<Equals(Head(work).l, Head(work).r)>>)

Elements(fn, c) ==
  [k \in 1..Len(c.l.elems) |->
     [fn |-> fn, l |-> c.l.elems[k], r |-> c.r, n |-> k - 1, top |-> FALSE,
      key |-> IF fn = "fromobject" THEN c.l.keys[k] ELSE NoTerm]]

MatchArray ==
  /\ Calling("match")
  /\ LET c == Head(work) IN
       /\ c.l.kind = "array"
       /\ Result(<<IsArray(c.r.var, Len(c.l.elems))>>, Elements("fromarray", c), 0,
                 FALSE)

MatchObject ==
  /\ Calling("match")
  /\ LET c == Head(work) IN
       /\ c.l.kind = "object"
       /\ Result(<<IsObject(c.r.var, Len(c.l.elems))>>, Elements("fromobject", c), 0,
                 FALSE)

MatchUnsupported ==
  /\ Calling("match")
  /\ Head(work).l.kind \in {"other", "arraycompr", "objectcompr"}
  /\ Fail

AddElement ==
  /\ Calling("fromarray") \/ Calling("fromobject")
  /\ LET c == Head(work)
         from == IF c.fn = "fromarray" THEN FromArray(Fresh, c.r.var, c.n)
                                       ELSE FromObject(Fresh, c.r.var, c.key) IN
       Result(<<Local(Fresh), from>>, <<Call("match", c.l, VarTerm(Fresh), FALSE)>>,
              1, FALSE)

ResolveCall ==
  \/ AddUnifyVars \/ AddUnifyVarTerm \/ AddTermsVar \/ AddTermsCompr
  \/ AddTermsEquals \/ AddTermExpr \/ AddExprsUnsupported
  \/ AddArrayArray \/ AddObjectObject
  \/ MatchVariable \/ MatchEquals \/ MatchArray \/ MatchObject \/ MatchUnsupported
  \/ AddElement

-----------------------------------------------------------------------------
(* add_captures: a name nobody produces is declared here or taken from     *)
(* outside.  The code goes through the names in the order of their text,   *)
(* which decides nothing but the indices of these literals: left open.     *)

Unproduced == {name \in UNION {lits[i].in : i \in 1..Len(lits)} : Producers(name) = {}}

AddCapture ==
  /\ phase = "captures"
  /\ \E name \in Unproduced :
       lits' = Append(lits, CASE name[2] = "empty" -> Local(name[1])
                              [] name[2] = "val"   -> Capture(name[1])
                              [] OTHER -> Lit("Capture", {}, {name}, NoTerm, NoTerm))
  /\ UNCHANGED <<phase, building, sorting>>

CapturesAdded ==
  /\ phase = "captures" /\ Unproduced = {}
  /\ phase' = "graphs" /\ xs' = Len(lits)
  /\ UNCHANGED <<lits, building, graph, graphs, frontier, trail, bound, ordered>>

(* find_graphs: from the last literal not seen yet, everything that shares *)
(* a name with what was reached.                                           *)
Neighbours(i) ==
  (UNION {Consumers(name) \cup {InEdge(name)} : name \in lits[i].in})
  \cup (UNION {Consumers(name) : name \in lits[i].out})
Reached == graph \cup UNION {Neighbours(i) : i \in graph}

Visited == UNION {graphs[k] : k \in DOMAIN graphs}

StartGraph ==
  /\ phase = "graphs" /\ graph = {} /\ xs > 0
  /\ xs' = xs - 1
  /\ graph' = IF xs \in Visited THEN {} ELSE {xs}
  /\ UNCHANGED <<phase, lits, building, graphs, frontier, trail, bound, ordered>>

GrowGraph ==
  /\ phase = "graphs" /\ graph # {} /\ Reached # graph
  /\ graph' = Reached
  /\ UNCHANGED <<phase, lits, building, xs, graphs, frontier, trail, bound, ordered>>

CloseGraph ==
  /\ phase = "graphs" /\ graph # {} /\ Reached = graph
  /\ graphs' = Append(graphs, graph)
  /\ graph' = {}
  /\ UNCHANGED <<phase, lits, building, xs, frontier, trail, bound, ordered>>

-----------------------------------------------------------------------------
(* sort().                                                                 *)

(* m_needs_sort, and the literals the query came with.                     *)
NeedsSort == \E k \in DOMAIN body.nodes :
               body.nodes[k].unify \/ body.nodes[k].lit.kind = "Scan"

(* Without a unification or a scan the query keeps its order.              *)
KeepOrder ==
  /\ phase = "graphs" /\ graph = {} /\ xs = 0 /\ ~NeedsSort
  /\ ordered' = [k \in 1..Len(body.nodes) |-> Len(body.locals) + k]
  /\ phase' = "done"
  /\ UNCHANGED <<lits, building, xs, graph, graphs, frontier, trail, bound>>

(* What was not unified is reported instead of the query.                  *)
ReportCycle ==
  /\ phase = "graphs" /\ graph = {} /\ xs = 0 /\ NeedsSort /\ queue # <<>>
  /\ phase' = "error"
  /\ UNCHANGED <<lits, building, sorting>>

StartSort ==
  /\ phase = "graphs" /\ graph = {} /\ xs = 0 /\ NeedsSort /\ queue = <<>>
  /\ phase' = "sort"
  /\ UNCHANGED <<lits, building, sorting>>

(* The out-edges find_graphs leaves a graph: the names nobody in it uses.  *)
Width(g) == Cardinality((UNION {lits[i].out : i \in g})
                         \ (UNION {lits[i].in : i \in g}))

(* The graphs in the order of their out-edges; std::sort leaves the order  *)
(* of equals open.  topological_sort begins with the literals that use     *)
(* nothing.                                                                *)
NextGraph ==
  /\ phase = "sort" /\ graph = {} /\ graphs # <<>>
  /\ \E k \in DOMAIN graphs :
       /\ \A j \in DOMAIN graphs : Width(graphs[k]) <= Width(graphs[j])
       /\ graph' = graphs[k]
       /\ graphs' = [j \in 1..Len(graphs) - 1 |-> graphs[IF j < k THEN j ELSE j + 1]]
       /\ frontier' = InOrder({i \in graphs[k] : lits[i].in = {}})
  /\ trail' = <<>> /\ bound' = {}
  /\ UNCHANGED <<phase, lits, building, xs, ordered>>

Seen == {trail[k] : k \in DOMAIN trail}

(* A literal already visited is skipped.                                   *)
SkipLiteral ==
  /\ phase = "sort" /\ frontier # <<>> /\ Head(frontier) \in Seen
  /\ frontier' = Tail(frontier)
  /\ UNCHANGED <<phase, lits, building, xs, graph, graphs, trail, bound, ordered>>

(* Two mistakes for TLC to find: a consumer of a new name is queued before *)
(* it has all it needs, and one that also uses older names never is.       *)
ReadyEarly(new, names) ==
  InOrder({i \in 1..Len(lits) : lits[i].in \cap new # {}})
ReadyNewOnly(new, names) ==
  InOrder({i \in 1..Len(lits) : lits[i].in # {} /\ lits[i].in \subseteq new})

(* The consumers of some new names that have all they need.                *)
Ready(new, names) ==
  InOrder({i \in 1..Len(lits) : /\ lits[i].in \cap new # {}
                                /\ lits[i].in \subseteq names})

(* A literal is emitted unless it only declares, and what it completes is  *)
(* queued name by name (the order of the two names of a scan left open).   *)
VisitLiteral ==
  /\ phase = "sort" /\ frontier # <<>> /\ Head(frontier) \notin Seen
  /\ LET i == Head(frontier)
         out == lits[i].out IN
       /\ trail' = Append(trail, i)
       /\ ordered' = IF lits[i].kind \in Declarations THEN ordered
                                                     ELSE Append(ordered, i)
       /\ bound' = bound \cup out
       /\ IF out = {} THEN frontier' = Tail(frontier)
          ELSE \E name \in out :
                 frontier' = Tail(frontier) \o Ready({name}, bound \cup out)
                                            \o Ready(out \ {name}, bound \cup out)
  /\ UNCHANGED <<phase, lits, building, xs, graph, graphs>>

GraphSorted ==
  /\ phase = "sort" /\ graph # {} /\ frontier = <<>>
  /\ graph' = {}
  /\ UNCHANGED <<phase, lits, building, xs, graphs, frontier, trail, bound, ordered>>

Sorted ==
  /\ phase = "sort" /\ graph = {} /\ graphs = <<>>
  /\ phase' = "done"
  /\ UNCHANGED <<lits, building, sorting>>

Finished == phase \in {"done", "error", "threw"} /\ UNCHANGED vars

Next ==
  \/ AddRuleLocals \/ AddNode \/ AddExternalCapture \/ NodesAdded
  \/ StartRound \/ Pop \/ ResolveCall \/ EndResolve
  \/ AddCapture \/ CapturesAdded
  \/ StartGraph \/ GrowGraph \/ CloseGraph
  \/ KeepOrder \/ ReportCycle \/ StartSort
  \/ NextGraph \/ SkipLiteral \/ VisitLiteral \/ GraphSorted \/ Sorted
  \/ Finished

Spec == Init /\ [][Next]_vars
FairSpec == Spec /\ WF_vars(Next)
-----------------------------------------------------------------------------
Calls == [fn : {"unify", "match", "fromarray", "fromobject"}, l : Operands,
          r : Operands, key : Operands, n : Nat, top : BOOLEAN]
Pair  == [l : Operands, r : Operands]

(* The shape of the state; the indices into m_literals stay in range.      *)
TypeOK ==
  /\ body \in Body /\ pos \in 0..Len(body.nodes)
  /\ phase \in {"locals", "nodes", "resolve", "captures", "graphs", "sort", "done",
                "error", "threw"}
  /\ lits \in Seq(Literal)
  /\ queue \in Seq(Pair) /\ current \in Pair
  /\ round \in 0..Len(queue) /\ size \in Nat
  /\ work \in Seq(Calls) /\ fresh \in Nat /\ dropped \in Nat
  /\ xs \in 0..Len(lits) /\ graph \subseteq 1..Len(lits)
  /\ graphs \in Seq(SUBSET (1..Len(lits)))
  /\ frontier \in Seq(1..Len(lits)) /\ trail \in Seq(1..Len(lits))
  /\ bound \subseteq Names /\ ordered \in Seq(1..Len(lits))

(* A literal is visited only after literals that produce every name it     *)
(* uses (topological_sort, dependency_graph.cc:1159): nothing is emitted   *)
(* before what it needs.                                                   *)
OrderedBeforeUse ==
  \A k \in DOMAIN trail : \A name \in lits[trail[k]].in :
    \E j \in 1..(k - 1) : name \in lits[trail[j]].out

(* A graph is left only when each of its literals was visited or still     *)
(* waits for a name no visited literal produces: a ready literal is never  *)
(* forgotten in the queue.                                                 *)
NoneSkipped ==
  (phase = "sort" /\ graph # {} /\ frontier = <<>>)
    => \A i \in graph : i \in Seen \/ ~(lits[i].in \subseteq bound)

(* What the last two properties ask of a body: neither the scope nor its   *)
(* literals give a name twice, or a value to a variable taken from outside *)
(* (a variable assigned with := twice, which the code lets pass with a     *)
(* note in the log, gives its value twice).                                *)
Declared(b) == UNION {b.locals[i].out : i \in DOMAIN b.locals}
PlainNodes(b) == {k \in DOMAIN b.nodes : ~b.nodes[k].unify}
GivenBy(b, k) == b.nodes[k].lit.out
NamesApart(b) ==
  LET names == Declared(b) \cup UNION {GivenBy(b, k) : k \in PlainNodes(b)} IN
  /\ names \subseteq Locals \X {"val", "empty"}
  /\ \A i, j \in DOMAIN b.locals : i # j => b.locals[i].out \cap b.locals[j].out = {}
  /\ \A k \in PlainNodes(b) : GivenBy(b, k) \cap Declared(b) = {}
  /\ \A j, k \in PlainNodes(b) : j # k => GivenBy(b, j) \cap GivenBy(b, k) = {}
  /\ \A v \in ExternalTo(b) : Val(v) \notin names

(* A variable taken from the enclosing scope is tested, never assigned     *)
(* (add_external_captures, dependency_graph.cc:1276).                      *)
CaptureNeverAssigned ==
  \A k \in DOMAIN ordered : \A v \in External :
    Captured(v) => Val(v) \notin lits[ordered[k]].out

(* No literal is emitted twice, though the search for the subgraphs knows  *)
(* only the last producer of a name, and no variable is bound twice: a     *)
(* second unification of it is a test (find_graphs, add_assign).           *)
BoundOnce ==
  \A j, k \in DOMAIN ordered : j # k =>
    /\ ordered[j] # ordered[k]
    /\ \A name \in lits[ordered[j]].out \cap lits[ordered[k]].out : name[2] # "val"
=============================================================================
