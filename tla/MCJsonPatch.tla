----------------------------- MODULE MCJsonPatch -----------------------------
(***************************************************************************)
(* json.patch on small documents, against the meaning of a patch: its      *)
(* operations one after the other, each on the document the one before     *)
(* left, all or nothing (RFC 6902; a set is a container of its members).   *)
(***************************************************************************)
EXTENDS JsonPatch
LOCAL INSTANCE SequencesExt

(***************************************************************************)
(* The meaning.                                                            *)
(***************************************************************************)
Failed == Err("builtin")
Containers == {"object", "array", "set"}

IndexText(i) == BigText(FromInt(i))
IsIndex(key, size) == \E i \in 0..(size - 1) : key = IndexText(i)
IndexOf(key, size) == CHOOSE i \in 0..(size - 1) : key = IndexText(i)

\* The part a key names, or an error.
PartOf(v, key) ==
  CASE v.k = "object" -> (IF \E e \in {v.entries[i] : i \in DOMAIN v.entries} : e.key = Str(key)
                          THEN (CHOOSE e \in {v.entries[i] : i \in DOMAIN v.entries} : e.key = Str(key)).val
                          ELSE Failed)
    [] v.k = "set"    -> (IF \E i \in DOMAIN v.members : TextOf(v.members[i]) = key
                          THEN CHOOSE m \in Range(v.members) : TextOf(m) = key ELSE Failed)
    [] v.k = "array"  -> (IF IsIndex(key, Len(v.items)) THEN v.items[IndexOf(key, Len(v.items)) + 1]
                          ELSE Failed)
    [] OTHER -> Failed

RECURSIVE LookAt(_, _)
LookAt(v, keys) ==
  IF keys = <<>> \/ IsErr(v) THEN v ELSE LookAt(PartOf(v, keys[1]), Tail(keys))

\* A container without, and with, a part.
Without(c, key) ==
  CASE c.k = "object" -> Obj(SelectSeq(c.entries, LAMBDA e : e.key # Str(key)))
    [] c.k = "set"    -> SetOf(SelectSeq(c.members, LAMBDA m : TextOf(m) # key))
    [] c.k = "array"  -> LET i == IndexOf(key, Len(c.items))
                         IN Arr(SubSeq(c.items, 1, i) \o SubSeq(c.items, i + 2, Len(c.items)))
WithPart(c, key, value) ==
  CASE c.k = "object" -> Obj(Append(Without(c, key).entries, Entry(Str(key), value)))
    [] c.k = "set"    -> IF ~IsErr(PartOf(c, key)) THEN c
                         ELSE IF TextOf(value) # key THEN Failed
                         ELSE SetOf(Append(c.members, value))
    [] c.k = "array"  -> LET size == Len(c.items)
                             i == IF key = <<Dash>> THEN size ELSE IndexOf(key, size + 1)
                         IN IF key # <<Dash>> /\ ~IsIndex(key, size + 1) THEN Failed
                            ELSE Arr(SubSeq(c.items, 1, i) \o <<value>> \o SubSeq(c.items, i + 1, size))
    [] OTHER -> Failed
\* With another value for a part it has.
Holding(c, key, value) ==
  CASE c.k = "object" -> WithPart(c, key, value)
    [] c.k = "set"    -> IF TextOf(value) = key THEN c ELSE Failed
    [] c.k = "array"  -> Arr([c.items EXCEPT ![IndexOf(key, Len(c.items)) + 1] = value])

\* The document with another container at the end of the keys.
RECURSIVE Put(_, _, _)
Put(v, keys, container) ==
  IF IsErr(container) \/ keys = <<>> THEN container
  ELSE IF v.k = "set" THEN Failed
  ELSE Holding(v, keys[1], Put(PartOf(v, keys[1]), Tail(keys), container))

Added(v, keys, value) ==
  IF keys = <<>> THEN value
  ELSE IF IsErr(LookAt(v, Front(keys))) THEN Failed
  ELSE Put(v, Front(keys), WithPart(LookAt(v, Front(keys)), Last(keys), value))
Dropped(v, keys) ==
  IF keys = <<>> \/ IsErr(LookAt(v, keys)) THEN Failed
  ELSE Put(v, Front(keys), Without(LookAt(v, Front(keys)), Last(keys)))
Replaced(v, keys, value) ==
  IF keys = <<>> THEN value
  ELSE IF IsErr(LookAt(v, keys)) THEN Failed
  ELSE Put(v, Front(keys), Holding(LookAt(v, Front(keys)), Last(keys), value))

KeysOf(text) == Pointer(text).keys
Meaning(op, v) ==
  IF ~op.ok \/ ~Pointer(op.path).ok \/ ~Pointer(op.from).ok THEN Failed
  ELSE LET keys == KeysOf(op.path)
           moved == LookAt(v, KeysOf(op.from))
       IN CASE op.type = "test"    -> IF SameKey(LookAt(v, keys), op.value) THEN v ELSE Failed
            [] op.type = "add"     -> Added(v, keys, op.value)
            [] op.type = "remove"  -> Dropped(v, keys)
            [] op.type = "replace" -> Replaced(v, keys, op.value)
            [] op.type = "copy"    -> IF IsErr(moved) THEN Failed ELSE Added(v, keys, moved)
            [] op.type = "move"    -> IF IsErr(moved) \/ IsErr(Dropped(v, KeysOf(op.from))) THEN Failed
                                      ELSE Added(Dropped(v, KeysOf(op.from)), keys, moved)

\* The documents before each operation and after the last one.
Stages(v, nodes) ==
  LET stage[i \in 0..Len(nodes)] ==
        IF i = 0 THEN v
        ELSE IF IsErr(stage[i - 1]) THEN stage[i - 1]
        ELSE Meaning(FromNode(nodes[i]), stage[i - 1])
  IN stage

(***************************************************************************)
(* Known differences, per operation: a move or a copy to where the value   *)
(* is already does nothing, even where there is none; one to the root does *)
(* not replace the document; and a key that is not an index adds to an     *)
(* array all the same when what was read of it is the array's length.      *)
(***************************************************************************)
ToItself(op) == op.type \in {"copy", "move"} /\ op.path = op.from
ToRoot(op) == op.type \in {"copy", "move"} /\ op.path = <<>>
LooseIndex(op, v) ==
  LET keys == KeysOf(op.path)
      array == LookAt(v, Front(keys))
  IN /\ op.type \in {"add", "copy", "move"} /\ Pointer(op.path).ok /\ keys # <<>>
     /\ array.k = "array" /\ Last(keys) # <<Dash>> /\ ~IsIndex(Last(keys), Len(array.items) + 1)

Differs(op, v) == op.ok /\ (ToItself(op) \/ ToRoot(op) \/ LooseIndex(op, v))

(***************************************************************************)
(* Properties.                                                             *)
(***************************************************************************)
RECURSIVE WellFormed(_)
\* No set has a member and no object a key twice.
WellFormed(v) ==
  CASE v.k = "array"  -> \A i \in DOMAIN v.items : WellFormed(v.items[i])
    [] v.k = "set"    -> Cardinality(Keys(v.members)) = Len(v.members)
    [] v.k = "object" -> /\ Cardinality({Key(v.entries[i].key) : i \in DOMAIN v.entries}) = Len(v.entries)
                         /\ \A i \in DOMAIN v.entries : WellFormed(v.entries[i].val)
    [] OTHER -> TRUE

\* The operations kept are a part of those read, and whatever order they are
\* applied in a set stays a set and an object an object.
TypeOK ==
  /\ phase \in {"idle", "reading", "applying", "done"}
  /\ read \in 0..Len(patch) /\ Len(ops) <= read
  /\ \A i \in DOMAIN ops : ops[i].ok /\ ops[i].type \in Types \ {"test"}
  /\ WellFormed(result)

IsTestOp(op) == op.ok /\ op.type = "test"
IsTest(node) == IsTestOp(FromNode(node))
TestsFirst ==
  \A i, j \in DOMAIN patch : IsTest(patch[i]) /\ j < i => IsTest(patch[j])

\* None of the known differences is met, and the result is the last document.
AsTheirMeaning(stages) ==
  \A i \in DOMAIN patch : ~IsErr(stages[i - 1]) => ~Differs(FromNode(patch[i]), stages[i - 1])
IsLast(stages) ==
  /\ SameKey(result, stages[Len(patch)])
  /\ IsErr(result) = IsErr(stages[Len(patch)])

EndsAsMeant(stages) == AsTheirMeaning(stages) => IsLast(stages)

\* A patch whose tests come first has the outcome of its operations applied
\* one after the other: the document they make, or an error when one of them
\* fails, never a document with some of them applied.
PatchIsSequential ==
  phase = "done" /\ TestsFirst => EndsAsMeant(Stages(object, patch))

\* What the declaration says of every patch: "result obtained after
\* consecutively applying all patch operations in `patches`" (json.cc).
PatchIsConsecutive == phase = "done" => EndsAsMeant(Stages(object, patch))

(***************************************************************************)
(* Documents {"a": ..., "b": ...} and operations on them.  None of them    *)
(* copies a value into a set: see JsonPatch.                               *)
(***************************************************************************)
A == 97
B == 98
Field(c, v) == Entry(Str(<<c>>), v)
MCDocuments ==
  {Obj(<<Field(A, Num(1))>>),
   Obj(<<Field(A, Num(1)), Field(B, Obj(<<Field(A, Num(2))>>))>>),
   Obj(<<Field(A, Arr(<<>>)), Field(B, Num(2))>>),
   Obj(<<Field(A, Arr(<<Num(1), Obj(<<Field(B, Num(2))>>)>>))>>),
   Obj(<<Field(A, SetOf(<<Num(1), Str(<<B>>)>>)), Field(B, Num(1))>>)}

Rooted(keys) == FlattenSeq([i \in DOMAIN keys |-> <<Slash>> \o keys[i]])
Paths == {Rooted(ks) : ks \in {<<>>, <<<<A>>>>, <<<<B>>>>, <<<<A>>, <<48>>>>, <<<<A>>, <<49>>>>,
                                <<<<A>>, <<Dash>>>>, <<<<A>>, <<B>>>>, <<<<B>>, <<A>>>>,
                                <<<<A>>, <<49>>, <<B>>>>}}
OddPaths == {<<A, Slash, 48>>, <<Slash, A, Slash, 48, 49>>, <<Slash, A, Tilde, 49, B>>, <<Slash, A, Tilde>>,
             <<Slash, B, Slash, B, Slash, B>>}

Node(type, path, more) ==
  Obj(<<Entry(Str(<<111, 112>>), Str(TypeText[type])), Entry(Str(<<112, 97, 116, 104>>), Str(path))>> \o more)
ValueIs(v) == <<Entry(Str(<<118, 97, 108, 117, 101>>), v)>>
FromIs(path) == <<Entry(Str(<<102, 114, 111, 109>>), Str(path))>>

Operations ==
  {Node(type, path, ValueIs(Num(1))) : type \in {"test", "add", "replace"}, path \in Paths}
    \union {Node("remove", path, <<>>) : path \in Paths}
    \union {Node(type, path, FromIs(from)) : type \in {"move", "copy"}, path \in {<<Slash, B>>, <<Slash, A, Slash, 48>>, <<>>, <<Slash, A, Slash, B>>},
                                             from \in {<<Slash, A>>, <<Slash, B>>, <<Slash, A, Slash, 48>>}}
Others ==
  {Node(type, path, ValueIs(Str(<<B>>))) : type \in {"add", "test"}, path \in OddPaths \union {<<Slash, A, Slash, B>>}}
    \union {Node("copy", <<Slash, A>>, <<>>), Node("add", <<Slash, A>>, <<>>), Null, Obj(<<>>),
            Node("replace", <<Slash, A>>, ValueIs(Arr(<<>>)))}

Some == {Node("add", <<Slash, B>>, ValueIs(Num(1))), Node("remove", <<Slash, A>>, <<>>), Node("test", <<Slash, A>>, ValueIs(Num(1))),
         Node("move", <<Slash, B>>, FromIs(<<Slash, A>>)), Node("copy", <<Slash, A, Slash, B>>, FromIs(<<Slash, B>>)),
         Node("replace", <<Slash, A>>, ValueIs(Arr(<<>>))), Node("add", <<Slash, A, Slash, Dash>>, ValueIs(Num(1)))}
MCPatches ==
  {<<>>} \union {<<op>> : op \in Operations \union Others} \union (Operations \X Operations)
    \union (Some \X Others) \union (Some \X Some \X Some)
=============================================================================
