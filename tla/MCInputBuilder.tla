--------------------------- MODULE MCInputBuilder ---------------------------
(***************************************************************************)
(* The documents a builder makes, against the calls read without a stack:  *)
(* every call says how many parts it is made of, so the list of the calls  *)
(* alone says how many whole parts there are after each, and which call    *)
(* ends which of them.                                                     *)
(***************************************************************************)
EXTENDS InputBuilder, FiniteSetsExt

PartsOf(call) == CASE call.op = "scalar" -> 0
                   [] call.op = "item"   -> 2
                   [] OTHER              -> call.count

\* What a call makes of its parts.
Built(call, p) == CASE call.op = "scalar" -> Scalar(call.value)
                    [] call.op = "item"   -> Item(ToTerm(p[1]), ToTerm(p[2]))
                    [] call.op = "object" -> Object(p)
                    [] call.op = "array"  -> Array(p)
                    [] call.op = "set"    -> SetNode({ToTerm(p[k]) : k \in DOMAIN p})

\* How many whole parts there are after each of the calls c.
Heights(c) ==
  LET height[i \in 0..Len(c)] == IF i = 0 THEN 0 ELSE height[i - 1] - PartsOf(c[i]) + 1
  IN height

\* The call that ends the n-th part of those there are after call i: the last
\* one that left n parts.
EndOf(h, i, n) == Max({0} \cup {j \in 1..i : h[j] = n})

\* What each call makes: its parts are the last ones there are before it.
Nodes(c) ==
  LET h == Heights(c)
      node[i \in 0..Len(c)] ==
        IF i = 0 THEN NotATerm
        ELSE LET n == PartsOf(c[i])
             IN Built(c[i], [k \in 1..n |-> node[EndOf(h, i - 1, h[i - 1] - n + k)]])
  IN node

\* The parts the first i calls make.
Whole(c, i) == [k \in 1..Heights(c)[i] |-> Nodes(c)[EndOf(Heights(c), i, k)]]

Fails(c, i) ==
  LET n == PartsOf(c[i])
      h == Heights(c)[i - 1]
  IN \/ h < n
     \/ c[i].op = "object" /\ \E k \in (h - n + 1)..h : Whole(c, i - 1)[k].kind # "item"

\* The calls before the first that fails.
Done == CHOOSE i \in 0..Len(calls) :
          /\ i < Len(calls) => Fails(calls, i + 1)
          /\ \A k \in 1..i : ~Fails(calls, k)

(***************************************************************************)
(* Whatever the order of the calls, the stack holds what the calls before  *)
(* the first that fails say, all of it; the builder is broken from then on *)
(* and never gives an input again; and the interpreter's input is the last *)
(* part that was whole when it was set.                                    *)
(***************************************************************************)
BuiltAsRead ==
  /\ stack = Whole(calls, Done)
  /\ status = "OK" <=> Done = Len(calls)
  /\ given <= Done
  /\ given = 0 => input = NoInput
  /\ given > 0 => input = Nodes(calls)[given]

(***************************************************************************)
(* Documented, and violated: a builder that validates has exactly one      *)
(* value on its stack (rego_c.h, regoInputValidate).                       *)
(***************************************************************************)
ValidMeansOneValue ==
  Validate = "OK" => Len(stack) = 1 /\ stack[1].kind # "item"
=============================================================================
