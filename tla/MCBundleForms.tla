---------------------------- MODULE MCBundleForms ----------------------------
(***************************************************************************)
(* Sample bundles for BundleForms: every statement type with a different   *)
(* value in each field, in both choices of operand kinds, over a small and *)
(* a larger string table, with and without a statement that makes the      *)
(* frame large; then calls with argument lists up to one more than a byte  *)
(* holds; then plan and function lists with repeated names; then what is   *)
(* at a limit of the reader and one beyond it.                             *)
(***************************************************************************)
EXTENDS BundleForms

LocalOf ==
  [Array |-> 4, Target |-> 3, Result |-> 3, Src |-> 6, Object |-> 5, Lhs |-> 6,
   Rhs |-> 7, Val |-> 8, Key |-> 7, Set |-> 4, LocalIndex |-> 3]

OperandOf(f, v) ==
  CASE f = "Src" -> IF v = 1 THEN Local(6) ELSE Operand("String", 1)
    [] f = "Key" -> IF v = 1 THEN Operand("String", 1) ELSE Local(7)
    [] f = "Val" -> IF v = 1 THEN Operand("True", 0) ELSE Local(8)
    [] f = "Lhs" -> IF v = 1 THEN Local(6) ELSE Operand("String", 5)
    [] f = "Rhs" -> IF v = 1 THEN Operand("String", 1) ELSE Operand("False", 0)

Arguments(n) == [i \in 1..n |-> Local(i - 1)]

OtherOf(t, f, v) ==
  CASE f = "Idx" -> Number(IF v = 1 THEN 1 ELSE 5)
    [] f = "Func" -> "f"
    [] f = "Path" /\ t = "CallDynamic" -> <<Operand("String", 0), Local(6)>>
    [] f = "Args" -> Arguments(v + 1)
    [] f = "Blocks" -> <<2, 3>>
    [] f = "Block" -> 3
    [] f = "Path" -> <<1, 0>>
    [] OTHER -> Number(9)

Sample(t, v) ==
  [type |-> t,
   f    |-> [x \in Fields(t) |->
               CASE x \in LocalFields[t]   -> Local(LocalOf[x])
                 [] x \in OperandFields(t) -> OperandOf(x, v)
                 [] OTHER                  -> OtherOf(t, x, v)]]

Large == [type |-> "MakeNull", f |-> [Target |-> Local(8)]]

CallWith(n) == [type |-> "Call",
                f |-> [Func |-> "f", Args |-> Arguments(n), Result |-> Local(3)]]

WithPath(n) == [Sample("With", 1) EXCEPT !.f.Path = [i \in 1..n |-> 0]]

Plan(n) == [name |-> n, blocks |-> <<1>>]
Function(n, k) == [name |-> n, path |-> <<"f", n>>, params |-> [i \in 1..k |-> i - 1], result |-> 2,
                   blocks |-> <<1>>]

Tree(strings, pool, plans, funcs, query) ==
  [strings |-> strings, pool |-> pool, plans |-> plans, funcs |-> funcs,
   query |-> query]

OnePlan == <<Plan("q")>>
OneFunc == <<Function("f", 2)>>

StatementPrograms ==
  {Tree(n, <<IF big THEN <<Sample(t, v), Large>> ELSE <<Sample(t, v)>>, <<>>, <<>>>>,
        OnePlan, OneFunc, "q") :
     n \in {2, 5, 6}, big \in BOOLEAN, t \in StatementTypes, v \in 1..2}

CallPrograms ==
  {Tree(2, <<<<s, Large>>, <<>>, <<>>>>, OnePlan, <<Function("f", k)>>, "q") :
     s \in {CallWith(n) : n \in 0..5} \union {WithPath(n) : n \in 0..5}, k \in 1..5}

PlanLists == UNION {[1..n -> {Plan("a"), Plan("b"), Plan("q")}] : n \in 1..4}

NamePrograms ==
  {Tree(2, <<<<Large>>>>, ps, fs, q) :
     ps \in PlanLists, q \in {"q", NoQuery},
     fs \in {<<>>, <<Function("f", 2), Function("g", 3)>>,
             <<Function("f", 2), Function("f", 3), Function("g", 3)>>}}

(* At a limit of the reader and one beyond it: a chain of blocks, a table  *)
(* of strings, statements of a block, blocks of a statement and of a plan, *)
(* and the path of a function.                                             *)
Chain(n) == [k \in 1..n |-> IF k = n THEN <<Large>>
                            ELSE <<[type |-> "Not", f |-> [Block |-> k + 1]]>>]

LimitPrograms ==
  {Tree(2, Chain(n), OnePlan, OneFunc, "q") : n \in 1..(MaxDepth + 1)}
    \union {Tree(n, <<<<Large>>>>, OnePlan, OneFunc, "q") :
              n \in {MaxElements, MaxElements + 1}}
    \union {Tree(2, <<[i \in 1..n |-> Large]>>, OnePlan, OneFunc, "q") :
              n \in {MaxElements, MaxElements + 1}}
    \union {Tree(2, <<<<[type |-> "Block", f |-> [Blocks |-> [i \in 1..n |-> 2]]]>>, <<Large>>>>,
                 OnePlan, OneFunc, "q") : n \in {MaxElements, MaxElements + 1}}
    \union {Tree(2, <<<<Large>>>>, <<[name |-> "q", blocks |-> [i \in 1..n |-> 1]]>>, OneFunc, "q") :
              n \in {MaxElements, MaxElements + 1}}
    \union {Tree(2, <<<<Large>>>>, OnePlan,
                 <<[Function("f", 2) EXCEPT !.path = [i \in 1..n |-> "f"]]>>, "q") :
              n \in {ByteMax, ByteMax + 1}}

MCPrograms == StatementPrograms \union CallPrograms \union NamePrograms \union LimitPrograms

(* A payload at all the limits, and one beyond each of them.               *)
AtLimits == [string |-> MaxStringBytes, utf8 |-> TRUE, table |-> MaxElements,
             data |-> MaxDepth, bytes |-> MaxBundleSize]

MCPayloads ==
  {AtLimits, [AtLimits EXCEPT !.string = @ + 1], [AtLimits EXCEPT !.utf8 = FALSE],
   [AtLimits EXCEPT !.table = @ + 1], [AtLimits EXCEPT !.data = @ + 1],
   [AtLimits EXCEPT !.bytes = @ + 1]}
=============================================================================
