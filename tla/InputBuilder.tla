---------------------------- MODULE InputBuilder ----------------------------
(***************************************************************************)
(* The input builder of the C API (rego_c.cc): a document is built on a    *)
(* stack by separate calls.  A scalar is pushed; an object item is made of *)
(* the top two values, and an object, an array or a set of as many as the  *)
(* call says.  A call that fails leaves its error in the builder, which    *)
(* then refuses every other, and regoSetInput gives the top of the stack   *)
(* to the interpreter.  A behaviour is the life of one builder, from       *)
(* regoNewInput to regoFreeInput.                                          *)
(*                                                                         *)
(* The texts that order and tell apart the members of a set (to_key) tell  *)
(* the values apart, so a set is a set here.  Arguments are never NULL.    *)
(***************************************************************************)
EXTENDS Integers, Sequences

CONSTANTS Scalars,      \* what is pushed
          Counts,       \* the counts given to the calls that take one
          MaxCalls      \* calls on a builder before it is freed

ASSUME CountsAssumption == Counts \subseteq Nat

Item(key, value) == [kind |-> "item", key |-> key, value |-> value]
Scalar(x)        == [kind |-> "scalar", value |-> x]
Array(elements)  == [kind |-> "array", elements |-> elements]
Object(items)    == [kind |-> "object", items |-> items]
SetNode(members) == [kind |-> "set", members |-> members]
NotATerm         == [kind |-> "error"]
NoInput          == [kind |-> "none"]

\* An object item, or an error, becomes an error inside another value.
ToTerm(node) ==
  IF node.kind \in {"scalar", "array", "object", "set"} THEN node ELSE NotATerm

VARIABLES
  stack,      \* the values built and not used yet
  status,     \* the first error, or "OK"
  reply,      \* the answer to the last call
  input,      \* the interpreter's input
  calls,      \* the calls made on the builder
  given       \* how many of them had been made when the input was set
vars == <<stack, status, reply, input, calls, given>>

Init == /\ stack = <<>> /\ status = "OK" /\ reply = "OK"
        /\ input = NoInput /\ calls = <<>> /\ given = 0

Made(call) ==
  /\ Len(calls) < MaxCalls
  /\ calls' = Append(calls, call)
  /\ UNCHANGED <<input, given>>

Top(n) == SubSeq(stack, Len(stack) - n + 1, Len(stack))
Below(n) == SubSeq(stack, 1, Len(stack) - n)

\* A builder with an error answers with it.
Broken == /\ status # "OK"
          /\ reply' = status
          /\ UNCHANGED <<stack, status>>

Missing(n) == /\ Len(stack) < n
              /\ status' = "MISSING_ARGUMENTS" /\ reply' = status'
              /\ UNCHANGED stack

Becomes(n, node) == /\ Len(stack) >= n /\ status = "OK"
                    /\ stack' = Append(Below(n), node)
                    /\ reply' = "OK"
                    /\ UNCHANGED status

\* regoInputInt, regoInputFloat, regoInputString, regoInputBoolean,
\* regoInputNull.
InputScalar(x) ==
  /\ Made([op |-> "scalar", value |-> x])
  /\ Broken \/ Becomes(0, Scalar(x))

InputObjectItem ==
  /\ Made([op |-> "item"])
  /\ \/ Missing(2)
     \/ Len(stack) >= 2 /\ Broken
     \/ Len(stack) >= 2 /\ Becomes(2, Item(ToTerm(Top(2)[1]), ToTerm(Top(2)[2])))

OnlyItems(n) == Len(stack) >= n /\ \A i \in 1..n : Top(n)[i].kind = "item"

\* Mutant: a list that holds something else is taken from the stack all the same.
InputObjectTakes(n) ==
  /\ Made([op |-> "object", count |-> n])
  /\ \/ Missing(n)
     \/ Len(stack) >= n /\ Broken
     \/ OnlyItems(n) /\ Becomes(n, Object(Top(n)))
     \/ /\ Len(stack) >= n /\ status = "OK" /\ ~OnlyItems(n)
        /\ status' = "OBJECT_ITEM" /\ reply' = status'
        /\ stack' = Below(n)

InputObject(n) ==
  /\ Made([op |-> "object", count |-> n])
  /\ \/ Missing(n)
     \/ Len(stack) >= n /\ Broken
     \/ OnlyItems(n) /\ Becomes(n, Object(Top(n)))
     \/ /\ Len(stack) >= n /\ status = "OK" /\ ~OnlyItems(n)
        /\ status' = "OBJECT_ITEM" /\ reply' = status'
        /\ UNCHANGED stack

InputArray(n) ==
  /\ Made([op |-> "array", count |-> n])
  /\ \/ Missing(n)
     \/ Len(stack) >= n /\ Broken
     \/ Becomes(n, Array(Top(n)))

InputSet(n) ==
  /\ Made([op |-> "set", count |-> n])
  /\ \/ Missing(n)
     \/ Len(stack) >= n /\ Broken
     \/ Becomes(n, SetNode({ToTerm(Top(n)[i]) : i \in 1..n}))

\* What regoInputValidate and regoInputNode answer.
Validate == IF stack = <<>> THEN "NULL" ELSE status
InputNode == IF stack = <<>> \/ status # "OK" THEN NoInput ELSE stack[Len(stack)]

\* regoSetInput and Interpreter::set_input.  An object item is no input.
SetInput ==
  /\ \/ /\ stack = <<>>
        /\ reply' = "ERROR" /\ UNCHANGED <<input, given>>
     \/ /\ stack # <<>> /\ status # "OK"
        /\ reply' = status /\ UNCHANGED <<input, given>>
     \/ /\ InputNode # NoInput /\ ToTerm(InputNode) = NotATerm
        /\ reply' = "ERROR" /\ UNCHANGED <<input, given>>
     \/ /\ InputNode # NoInput /\ ToTerm(InputNode) # NotATerm
        /\ reply' = "OK"
        /\ input' = InputNode /\ given' = Len(calls)
  /\ UNCHANGED <<stack, status, calls>>

Next ==
  \/ \E x \in Scalars : InputScalar(x)
  \/ InputObjectItem
  \/ \E n \in Counts : InputObject(n) \/ InputArray(n) \/ InputSet(n)
  \/ SetInput

Spec == Init /\ [][Next]_vars
=============================================================================
