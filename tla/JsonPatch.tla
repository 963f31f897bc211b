------------------------------ MODULE JsonPatch ------------------------------
(***************************************************************************)
(* json.patch (builtins/json.cc): a list of operations on the parts of a   *)
(* document that pointers name.                                            *)
(*                                                                         *)
(* The list is read from its start.  An operation that cannot be read ends *)
(* the call, a test is run at once, on the document as it was given, and   *)
(* the others are kept.  Then these are applied to a copy one after the    *)
(* other, and the first that fails ends the call.                          *)
(*                                                                         *)
(* Two abstractions: the operations that change a document return the      *)
(* changed one, where the code changes nodes in place and returns a part   *)
(* or an error; and a value put into a set is a copy, where the code puts  *)
(* the node itself there (sets here have scalar members only, and nothing  *)
(* is copied into a set from inside the document).                         *)
(***************************************************************************)
EXTENDS Values
LOCAL INSTANCE SequencesExt
LOCAL INSTANCE FiniteSetsExt

CONSTANTS Documents,    \* the documents json.patch is called with
          Patches       \* the lists of operations

(***************************************************************************)
(* Pointers.  A first slash may be missing; ~0 is a tilde and ~1 a slash.  *)
(***************************************************************************)
Slash == 47
Tilde == 126
Dash == 45
Invalid == [ok |-> FALSE]

\* The text as its keys, cut at the slashes.
RECURSIVE Cut(_)
Cut(text) ==
  LET slashes == {i \in DOMAIN text : text[i] = Slash}
  IN IF slashes = {} THEN <<text>>
     ELSE <<SubSeq(text, 1, Min(slashes) - 1)>> \o Cut(SubSeq(text, Min(slashes) + 1, Len(text)))
NextKeys(path) ==
  IF path = <<>> THEN <<>> ELSE Cut(IF path[1] = Slash THEN Tail(path) ELSE path)

RECURSIVE UnescapeKey(_)
UnescapeKey(key) ==
  IF key = <<>> THEN key
  ELSE IF key[1] # Tilde THEN <<key[1]>> \o UnescapeKey(Tail(key))
  ELSE <<IF key[2] = 48 THEN Tilde ELSE Slash>> \o UnescapeKey(SubSeq(key, 3, Len(key)))
BadEscape(key) ==
  \E i \in DOMAIN key : /\ key[i] = Tilde
                        /\ i < Len(key) => key[i + 1] \notin {48, 49}

Pointer(path) ==
  LET keys == NextKeys(path)
  IN IF \E i \in DOMAIN keys : BadEscape(keys[i]) THEN Invalid
     ELSE [ok |-> TRUE, keys |-> [i \in DOMAIN keys |-> UnescapeKey(keys[i])]]

(***************************************************************************)
(* One step of a pointer: the place of a key among the parts of a value,   *)
(* or 0.  A member of a set is named by its text without quotes.           *)
(***************************************************************************)
TextOf(v) == IF v.k = "string" THEN v.s ELSE Key(v)

ObjectIndex(object, key) ==
  LET hits == {i \in DOMAIN object.entries :
                 object.entries[i].key.k = "string" /\ object.entries[i].key.raw = key}
  IN IF hits = {} THEN 0 ELSE Min(hits)

SetIndex(set, key) ==
  LET hits == {i \in DOMAIN set.members : TextOf(set.members[i]) = key}
  IN IF hits = {} THEN 0 ELSE Max(hits)

\* What a key says as an index, and whether it may be used: an index that may
\* not be used is left at the value it was read to.
IsDigit(c) == c \in 48..57
ArrayIndex(array, key) ==
  LET size == Len(array.items)
      digits == SelectInSeq(key, LAMBDA c : ~IsDigit(c)) - 1
      read == Magnitude([i \in 1..(IF digits < 0 THEN Len(key) ELSE digits) |-> key[i] - 48])
  IN CASE key = <<Dash>>                 -> [ok |-> FALSE, index |-> size]
       [] key # <<Dash>> /\ key[1] = Dash -> [ok |-> FALSE, index |-> 0]
       [] key[1] = 48 /\ Len(key) > 1    -> [ok |-> FALSE, index |-> 0]
       [] OTHER -> [ok |-> digits < 0 /\ read < size, index |-> read]

(***************************************************************************)
(* An operation on the value at a pointer.  The outcome is an answer, an   *)
(* error or a part, and the value as the operation leaves it.              *)
(***************************************************************************)
Outcome(answer, value) == [answer |-> answer, value |-> value]
Refused(value) == Outcome(Err("builtin"), value)

Compare2(part, expected, whole) ==
  IF SameKey(part, expected) THEN Outcome(part, whole) ELSE Refused(whole)

ObjectAction(object, i, key, action, value) ==
  LET part == object.entries[i].val
      With(v) == Obj([object.entries EXCEPT ![i].val = v])
  IN IF i = 0
     THEN IF action = "insert"
          THEN Outcome(value, Obj(Append(object.entries, Entry(Str(key), value))))
          ELSE Refused(object)
     ELSE CASE action = "compare" -> Compare2(part, value, object)
            [] action = "read"    -> Outcome(part, object)
            [] action = "remove"  -> Outcome(part, Obj(RemoveAt(object.entries, i)))
            [] action \in {"insert", "replace"} -> Outcome(part, With(value))

ArrayAction(array, at, action, value) ==
  LET part == array.items[at.index + 1]
  IN IF action = "insert" /\ at.index = Len(array.items)
     THEN Outcome(value, Arr(Append(array.items, value)))
     ELSE IF ~at.ok THEN Refused(array)
     ELSE CASE action = "compare" -> Compare2(part, value, array)
            [] action = "read"    -> Outcome(part, array)
            [] action = "remove"  -> Outcome(part, Arr(RemoveAt(array.items, at.index + 1)))
            [] action = "insert"  -> Outcome(value, Arr(InsertAt(array.items, at.index + 1, value)))
            [] action = "replace" -> Outcome(part, Arr([array.items EXCEPT ![at.index + 1] = value]))

\* Mutant: a member is inserted whether the set has it or not.
SetActionAgain(set, i, key, action, value) ==
  IF action = "insert" /\ TextOf(value) = key
  THEN Outcome(value, SetOf(Append(set.members, value)))
  ELSE IF i = 0 \/ action = "replace" THEN Refused(set)
  ELSE Outcome(set.members[i], IF action = "remove" THEN SetOf(RemoveAt(set.members, i)) ELSE set)

SetAction(set, i, key, action, value) ==
  LET part == set.members[i]
      named == action \in {"insert", "replace"} /\ TextOf(value) = key
  IN IF i = 0
     THEN IF action = "insert" /\ named THEN Outcome(value, SetOf(Append(set.members, value)))
          ELSE Refused(set)
     ELSE CASE action = "compare" -> Compare2(part, value, set)
            [] action \in {"read", "insert"} -> Outcome(part, set)
            [] action = "remove"  -> Outcome(part, SetOf(RemoveAt(set.members, i)))
            [] action = "replace" -> IF named THEN Outcome(part, set) ELSE Refused(set)

\* The place of the part a key names, or 0, and a part and a value with another one.
PlaceOf(node, key) ==
  CASE node.k = "object" -> ObjectIndex(node, key)
    [] node.k = "set"    -> SetIndex(node, key)
    [] node.k = "array"  -> LET at == ArrayIndex(node, key) IN IF at.ok THEN at.index + 1 ELSE 0
Child(node, i) ==
  CASE node.k = "object" -> node.entries[i].val
    [] node.k = "set"    -> node.members[i]
    [] node.k = "array"  -> node.items[i]
WithChild(node, i, v) ==
  CASE node.k = "object" -> Obj([node.entries EXCEPT ![i].val = v])
    [] node.k = "set"    -> SetOf([node.members EXCEPT ![i] = v])
    [] node.k = "array"  -> Arr([node.items EXCEPT ![i] = v])

Rebuilt(node, i, below) == Outcome(below.answer, WithChild(node, i, below.value))

RECURSIVE RunBelow(_, _, _, _)
RunThrough(node, i, keys, action, value) ==
  IF i = 0 THEN Refused(node)
  ELSE Rebuilt(node, i, RunBelow(Child(node, i), keys, action, value))
RunBelow(node, keys, action, value) ==
  IF node.k \notin {"object", "array", "set"} THEN Refused(node)
  ELSE IF Len(keys) > 1 THEN RunThrough(node, PlaceOf(node, keys[1]), Tail(keys), action, value)
  ELSE CASE node.k = "object" -> ObjectAction(node, ObjectIndex(node, keys[1]), keys[1], action, value)
         [] node.k = "set"    -> SetAction(node, SetIndex(node, keys[1]), keys[1], action, value)
         [] node.k = "array"  -> ArrayAction(node, ArrayIndex(node, keys[1]), action, value)

NoValue == [k |-> "no value"]

\* The whole document as the part: only test reads it here, and a value put
\* in its place is the answer, which the caller drops.
RunAt(document, pointer, action, value) ==
  IF ~pointer.ok THEN Refused(document)
  ELSE IF pointer.keys # <<>> THEN RunBelow(document, pointer.keys, action, value)
  ELSE CASE action = "read"    -> Outcome(document, document)
         [] action = "remove"  -> Refused(document)
         [] action = "compare" -> Compare2(document, value, document)
         [] action \in {"insert", "replace"} -> Outcome(value, document)
Run(document, path, action, value) == RunAt(document, Pointer(path), action, value)

(***************************************************************************)
(* Reading an operation.                                                   *)
(***************************************************************************)
Types == {"test", "add", "remove", "replace", "copy", "move"}
TypeText == [test |-> <<116, 101, 115, 116>>, add |-> <<97, 100, 100>>,
             remove |-> <<114, 101, 109, 111, 118, 101>>, copy |-> <<99, 111, 112, 121>>,
             replace |-> <<114, 101, 112, 108, 97, 99, 101>>, move |-> <<109, 111, 118, 101>>]
OpKey    == <<Slash, 111, 112>>
PathKey  == <<Slash, 112, 97, 116, 104>>
ValueKey == <<Slash, 118, 97, 108, 117, 101>>
FromKey  == <<Slash, 102, 114, 111, 109>>

Select(node, path) == Run(node, path, "read", NoValue).answer

\* A path is a string, or an array whose texts become its keys.
PathText(v) ==
  IF v.k = "string" THEN v.raw
  ELSE FlattenSeq([i \in DOMAIN v.items |-> <<Slash>> \o TextOf(v.items[i])])

Parsed(name, path, value, from) ==
  LET type == CHOOSE t \in Types : TypeText[t] = name.raw
  IN IF name.k # "string" \/ path.k \notin {"string", "array"} THEN Invalid
     ELSE IF \A t \in Types : TypeText[t] # name.raw THEN Invalid
     ELSE IF type \in {"add", "replace", "test"} /\ IsErr(value) THEN Invalid
     ELSE IF type \in {"copy", "move"} /\ from.k # "string" THEN Invalid
     ELSE [ok |-> TRUE, type |-> type, path |-> PathText(path),
           value |-> IF IsErr(value) THEN NoValue ELSE value,
           from |-> IF type \in {"copy", "move"} THEN from.raw ELSE <<>>]
FromNode(node) ==
  Parsed(Select(node, OpKey), Select(node, PathKey), Select(node, ValueKey), Select(node, FromKey))

(***************************************************************************)
(* Applying an operation: the document that comes of it, or an error.      *)
(***************************************************************************)
OrError(outcome) == IF IsErr(outcome.answer) THEN outcome.answer ELSE outcome.value

Test(op, document) == OrError(Run(document, op.path, "compare", op.value))
Add(op, document) ==
  IF op.path = <<>> THEN op.value ELSE OrError(Run(document, op.path, "insert", op.value))
RemoveOp(op, document) == OrError(Run(document, op.path, "remove", NoValue))
Replace(op, document) ==
  IF op.path = <<>> THEN op.value ELSE OrError(Run(document, op.path, "replace", op.value))
Inserted(part, document, path) ==
  IF IsErr(part) THEN part ELSE OrError(Run(document, path, "insert", part))
InsertTaken(taken, path) == Inserted(taken.answer, taken.value, path)
Move(op, document) ==
  IF op.path = op.from THEN document
  ELSE InsertTaken(Run(document, op.from, "remove", NoValue), op.path)
Copy(op, document) ==
  IF op.path = op.from THEN document
  ELSE Inserted(Select(document, op.from), document, op.path)

Apply(op, document) ==
  CASE op.type = "test"    -> Test(op, document)
    [] op.type = "add"     -> Add(op, document)
    [] op.type = "remove"  -> RemoveOp(op, document)
    [] op.type = "replace" -> Replace(op, document)
    [] op.type = "move"    -> Move(op, document)
    [] op.type = "copy"    -> Copy(op, document)

(***************************************************************************)
(* A call, one operation at a time.                                        *)
(***************************************************************************)
VARIABLES
  phase,      \* "idle", "reading", "applying" or "done"
  object,     \* the document that is patched
  patch,      \* the list of operations
  read,       \* how many of them have been read
  ops,        \* those kept and not applied yet
  result      \* the document as patched so far, and what is returned in the end
vars == <<phase, object, patch, read, ops, result>>

Init == /\ phase = "idle" /\ read = 0
        /\ object = Null /\ patch = <<>> /\ ops = <<>> /\ result = Undefined

Return(v) == phase' = "done" /\ result' = v /\ ops' = <<>>

Call ==
  /\ phase = "idle"
  /\ object' \in Documents /\ patch' \in Patches
  /\ phase' = "reading"
  /\ UNCHANGED <<read, ops, result>>

ReadOp ==
  /\ phase = "reading" /\ read < Len(patch)
  /\ read' = read + 1
  /\ UNCHANGED <<object, patch>>
  /\ \E op \in {FromNode(patch[read + 1])} :
        \/ /\ ~op.ok
           /\ Return(Err("builtin"))
        \/ /\ op.ok /\ op.type = "test"
           /\ \E tested \in {Test(op, object)} :
                IF IsErr(tested) THEN Return(tested) ELSE UNCHANGED <<phase, ops, result>>
        \/ /\ op.ok /\ op.type # "test"
           /\ ops' = Append(ops, op)
           /\ UNCHANGED <<phase, result>>

Clone ==
  /\ phase = "reading" /\ read = Len(patch)
  /\ phase' = "applying"
  /\ result' = object
  /\ UNCHANGED <<object, patch, read, ops>>

\* Mutant: an operation that fails is passed over.
ApplyOpOrPass ==
  /\ phase = "applying" /\ ops # <<>>
  /\ \E patched \in {Apply(ops[1], result)} :
       result' = IF IsErr(patched) THEN result ELSE patched
  /\ ops' = Tail(ops)
  /\ UNCHANGED <<phase, object, patch, read>>

ApplyOp ==
  /\ phase = "applying" /\ ops # <<>>
  /\ \E patched \in {Apply(ops[1], result)} :
       IF IsErr(patched) THEN Return(patched)
       ELSE result' = patched /\ ops' = Tail(ops) /\ UNCHANGED phase
  /\ UNCHANGED <<object, patch, read>>

Finish ==
  /\ phase = "applying" /\ ops = <<>>
  /\ Return(result)
  /\ UNCHANGED <<object, patch, read>>

Drop ==
  /\ phase = "done"
  /\ phase' = "idle" /\ read' = 0
  /\ object' = Null /\ patch' = <<>> /\ result' = Undefined
  /\ UNCHANGED ops

Next == Call \/ ReadOp \/ Clone \/ ApplyOp \/ Finish \/ Drop
Spec == Init /\ [][Next]_vars
=============================================================================
